---- MODULE Spec2Model ----
(***************************************************************************)
(* Multi-model forecasting core of the trading-dashboard backend.          *)
(*                                                                         *)
(*   backend/app/services/model_loader.py   ModelLoader (artifact registry)*)
(*   backend/app/services/ml_service.py     MLPredictionService (ensemble) *)
(*                                                                         *)
(* Prices are exact rationals <<num, den>>; the confidence, which involves *)
(* a square root, is an exact number of the form rat + sgn * sqrt(rad).    *)
(* Floating-point rounding is not modelled.                                *)
(***************************************************************************)
EXTENDS Integers, Sequences, FiniteSets, TLC

(***************************************************************************)
(* Bounds of the model.                                                    *)
(***************************************************************************)
\* number of request coroutines that can be in flight on the event loop
NumRequests == 2

Requests == 1..NumRequests

\* Python's None, where a rational, a dict or an object is expected
None == <<>>

\* no symbol (a frame that is not in use)
NoSymbol == ""

(***************************************************************************)
(* Exact rational arithmetic.                                              *)
(***************************************************************************)
Abs(x) == IF x < 0 THEN -x ELSE x

RECURSIVE GCD(_, _)
GCD(a, b) == IF b = 0 THEN a ELSE GCD(b, a % b)

\* the rational n/d in lowest terms with a positive denominator
Rat(n, d) ==
    LET s == IF d < 0 THEN -1 ELSE 1
        g == GCD(Abs(n), Abs(d))
    IN  <<(s * n) \div g, (s * d) \div g>>

RatInt(i) == <<i, 1>>
RatAdd(x, y) == Rat(x[1] * y[2] + y[1] * x[2], x[2] * y[2])
RatSub(x, y) == Rat(x[1] * y[2] - y[1] * x[2], x[2] * y[2])
RatMul(x, y) == Rat(x[1] * y[1], x[2] * y[2])
RatDiv(x, y) == Rat(x[1] * y[2], x[2] * y[1])
RatLt(x, y) == x[1] * y[2] < y[1] * x[2]
RatLe(x, y) == x[1] * y[2] <= y[1] * x[2]
RatAbs(x) == <<Abs(x[1]), x[2]>>
RatSign(x) == IF x[1] > 0 THEN 1 ELSE IF x[1] < 0 THEN -1 ELSE 0

RECURSIVE IsqrtBetween(_, _, _)
IsqrtBetween(n, lo, hi) ==
    IF lo >= hi THEN lo
    ELSE LET mid == (lo + hi + 1) \div 2
         IN  IF mid * mid <= n THEN IsqrtBetween(n, mid, hi)
                               ELSE IsqrtBetween(n, lo, mid - 1)

\* floor of the square root of a natural number below 2^30
Isqrt(n) == IsqrtBetween(n, 0, IF n < 32767 THEN n ELSE 32767)

IsSquare(n) == Isqrt(n) * Isqrt(n) = n

(***************************************************************************)
(* Exact numbers rat + sgn * sqrt(rad), rad a non-negative rational.       *)
(* Canonical form: sgn = 0 and rad = 0 when the number is rational.        *)
(***************************************************************************)
RealOfRat(x) == [rat |-> x, sgn |-> 0, rad |-> RatInt(0)]

RealCanon(rat, sgn, rad) ==
    IF sgn = 0 \/ rad[1] = 0 THEN RealOfRat(rat)
    ELSE IF IsSquare(rad[1]) /\ IsSquare(rad[2])
         THEN RealOfRat(RatAdd(rat, Rat(sgn * Isqrt(rad[1]), Isqrt(rad[2]))))
         ELSE [rat |-> rat, sgn |-> sgn, rad |-> rad]

\* square root of a non-negative rational
RealSqrt(x) == RealCanon(RatInt(0), 1, x)

\* x * q and x / q for a rational q
RealMulRat(x, q) ==
    RealCanon(RatMul(x.rat, q), x.sgn * RatSign(q), RatMul(x.rad, RatMul(q, q)))
RealDivRat(x, q) == RealMulRat(x, RatDiv(RatInt(1), q))

\* q - x for a rational q
RatMinusReal(q, x) == RealCanon(RatSub(q, x.rat), -x.sgn, x.rad)

\* x <= q and q <= x for a rational q
RealLeRat(x, q) ==
    LET t == RatSub(q, x.rat)
    IN  CASE x.sgn = 0  -> t[1] >= 0
          [] x.sgn = 1  -> t[1] >= 0 /\ RatLe(x.rad, RatMul(t, t))
          [] x.sgn = -1 -> t[1] >= 0 \/ RatLe(RatMul(t, t), x.rad)
RatLeReal(q, x) ==
    LET t == RatSub(q, x.rat)
    IN  CASE x.sgn = 0  -> t[1] <= 0
          [] x.sgn = 1  -> t[1] <= 0 \/ RatLe(RatMul(t, t), x.rad)
          [] x.sgn = -1 -> t[1] <= 0 /\ RatLe(x.rad, RatMul(t, t))
RealLtRat(x, q) == ~RatLeReal(q, x)
RatLtReal(q, x) == ~RealLeRat(x, q)

\* Python's min(q, x) and max(q, x) with a rational first argument: the
\* first argument is returned unless the second is strictly smaller (larger)
PyMin(q, x) == IF RealLtRat(x, q) THEN x ELSE RealOfRat(q)
PyMax(q, x) == IF RatLtReal(q, x) THEN x ELSE RealOfRat(q)

(***************************************************************************)
(* Architectures, symbols and registry keys.                               *)
(***************************************************************************)
\* the order in which load_models and predict_stock_price visit the models
model_types == <<"lstm", "gru", "attention_lstm">>
ModelTypes == {model_types[i] : i \in 1..Len(model_types)}

Symbols == {"AAPL"}
Lower(symbol) == IF symbol = "AAPL" THEN "aapl" ELSE symbol

\* key = f"{model_type}_{symbol.lower()}"
Key(model_type, symbol) == <<model_type, Lower(symbol)>>
Keys == {Key(mt, s) : mt \in ModelTypes, s \in Symbols}

TORCH_AVAILABLE == TRUE

sequence_length == 120
input_size == 4

(***************************************************************************)
(* The paired feature scaler (a fitted MinMaxScaler over the four features *)
(* Close, MA_20, MA_50, Volatility) and the inverse transform of predict.  *)
(***************************************************************************)
\* the scaler the training run of a symbol pickles next to the weights
FittedScaler == [data_min |-> <<80, 85, 90, 0>>, data_max |-> <<130, 125, 120, 10>>]

\* the number of features the scaler was fitted on (n_features_in_)
n_features(scaler) == Len(scaler.data_min)

\* data_max_ - data_min_ of feature f, where MinMaxScaler takes 1 for the
\* range of a constant feature
data_range(scaler, f) ==
    IF scaler.data_max[f] = scaler.data_min[f] THEN 1
    ELSE scaler.data_max[f] - scaler.data_min[f]

\* variant: the offset data_min is not taken off
transform_without_offset(scaler, row) ==
    [f \in 1..Len(row) |-> RatDiv(row[f], RatInt(data_range(scaler, f)))]

\* MinMaxScaler.transform of one row of rationals
transform(scaler, row) ==
    [f \in 1..Len(row) |->
        RatDiv(RatSub(row[f], RatInt(scaler.data_min[f])),
               RatInt(data_range(scaler, f)))]

\* MinMaxScaler.inverse_transform of one row of rationals
inverse_transform(scaler, row) ==
    [f \in 1..Len(row) |->
        RatAdd(RatMul(row[f], RatInt(data_range(scaler, f))),
               RatInt(scaler.data_min[f]))]

\* variant: the prediction is put in every slot and the slots are averaged
prediction_original_of_slots(scaler, prediction_scaled) ==
    LET row == inverse_transform(scaler,
                   <<prediction_scaled, prediction_scaled,
                     prediction_scaled, prediction_scaled>>)
    IN  RatDiv(RatAdd(RatAdd(row[1], row[2]), RatAdd(row[3], row[4])), RatInt(4))

\* prediction_array = [[prediction_scaled, 0, 0, 0]]; read back slot [0, 0]
prediction_original(scaler, prediction_scaled) ==
    inverse_transform(scaler,
        <<prediction_scaled, RatInt(0), RatInt(0), RatInt(0)>>)[1]

(***************************************************************************)
(* The ensemble computation of MLPredictionService.predict_stock_price.    *)
(* model_predictions is a dict: a function from the contributing model     *)
(* types to their predicted prices.                                        *)
(***************************************************************************)
Horizons == {"7d", "15d", "30d"}

\* variant: the multipliers of 15d and 30d are exchanged
horizon_multipliers_exchanged == [h \in Horizons |->
    CASE h = "7d"  -> Rat(10, 10)
      [] h = "15d" -> Rat(18, 10)
      [] h = "30d" -> Rat(14, 10)]

horizon_multipliers == [h \in Horizons |->
    CASE h = "7d"  -> Rat(10, 10)
      [] h = "15d" -> Rat(14, 10)
      [] h = "30d" -> Rat(18, 10)]

\* sum of f(v) over the values of a dict keyed by model types
RECURSIVE SumOver(_, _, _)
SumOver(d, f(_), i) ==
    IF i > Len(model_types) THEN RatInt(0)
    ELSE LET rest == SumOver(d, f, i + 1)
         IN  IF model_types[i] \in DOMAIN d
             THEN RatAdd(f(d[model_types[i]]), rest) ELSE rest

\* np.mean(list(model_predictions.values()))
np_mean(d) ==
    LET id(v) == v
    IN  RatDiv(SumOver(d, id, 1), RatInt(Cardinality(DOMAIN d)))

\* np.std(list(model_predictions.values())): sqrt(mean(abs(x - mean)**2))
np_std(d) ==
    LET m == np_mean(d)
        sq(v) == RatMul(RatSub(v, m), RatSub(v, m))
    IN  RealSqrt(RatDiv(SumOver(d, sq, 1), RatInt(Cardinality(DOMAIN d))))

\* variant: the change is taken relative to the prediction
base_change_of_prediction(avg_prediction, current_price) ==
    IF current_price > 0
    THEN RatDiv(RatSub(avg_prediction, RatInt(current_price)), avg_prediction)
    ELSE RatInt(0)

base_change(avg_prediction, current_price) ==
    IF current_price > 0
    THEN RatDiv(RatSub(avg_prediction, RatInt(current_price)), RatInt(current_price))
    ELSE RatInt(0)

target_price(current_price, adj_change) ==
    RatMul(RatInt(current_price), RatAdd(RatInt(1), adj_change))

\* variant: the single-model default is missing
confidence_without_default(model_predictions, current_price) ==
    PyMax(Rat(50, 100),
          PyMin(Rat(95, 100),
                RatMinusReal(Rat(85, 100),
                    RealMulRat(RealDivRat(np_std(model_predictions),
                                          RatInt(current_price)),
                               RatInt(10)))))

\* variant: the relative spread is not multiplied by 10
confidence_without_factor(model_predictions, current_price) ==
    IF Cardinality(DOMAIN model_predictions) > 1
    THEN PyMax(Rat(50, 100),
               PyMin(Rat(95, 100),
                     RatMinusReal(Rat(85, 100),
                         RealDivRat(np_std(model_predictions),
                                    RatInt(current_price)))))
    ELSE RealOfRat(Rat(75, 100))

\* variant: the relative spread is added instead of subtracted
confidence_plus_spread(model_predictions, current_price) ==
    IF Cardinality(DOMAIN model_predictions) > 1
    THEN PyMax(Rat(50, 100),
               PyMin(Rat(95, 100),
                     RatMinusReal(Rat(85, 100),
                         RealMulRat(RealDivRat(np_std(model_predictions),
                                               RatInt(current_price)),
                                    RatInt(-10)))))
    ELSE RealOfRat(Rat(75, 100))

confidence(model_predictions, current_price) ==
    IF Cardinality(DOMAIN model_predictions) > 1
    THEN PyMax(Rat(50, 100),
               PyMin(Rat(95, 100),
                     RatMinusReal(Rat(85, 100),
                         RealMulRat(RealDivRat(np_std(model_predictions),
                                               RatInt(current_price)),
                                    RatInt(10)))))
    ELSE RealOfRat(Rat(75, 100))

model_label == "Models (LSTM, GRU, Attention LSTM)"

\* the predictions dict built by the loop over horizon_multipliers
horizon_predictions(model_predictions, current_price) ==
    [h \in Horizons |->
        [price |-> target_price(current_price,
                      RatMul(base_change(np_mean(model_predictions), current_price),
                             horizon_multipliers[h])),
         confidence |-> confidence(model_predictions, current_price),
         model |-> <<Cardinality(DOMAIN model_predictions), model_label>>,
         model_predictions |-> model_predictions]]

\* the empty dict
EmptyDict == <<>>

(***************************************************************************)
(* Python dicts as functions with a finite domain.                         *)
(***************************************************************************)
DictSet(d, k, v) == [x \in DOMAIN d \cup {k} |-> IF x = k THEN v ELSE d[x]]

(***************************************************************************)
(* Inputs of the environment.                                              *)
(***************************************************************************)
\* current prices get_stock_info can report (it returns None for price <= 0)
CurrentPrices == {100}

\* get_stock_info returned None, or a dict without a current price
NoStockInfo == 0

\* model(input_tensor).squeeze().item(): the scaled output of each network
\* on the most recent window of the symbol
network_output(model_type) ==
    CASE model_type = "lstm"           -> Rat(9, 25)
      [] model_type = "gru"            -> Rat(2, 5)
      [] model_type = "attention_lstm" -> Rat(4, 5)

\* a weights file holds a state dict of the current architecture ("ok") or
\* of an older one ("old"), or does not exist ("absent")
WeightKinds == {"ok", "old"}

(***************************************************************************)
(* State.                                                                  *)
(***************************************************************************)
VARIABLES
    weights,        \* model_dir: {model_type}_{symbol}.pth per key
    scaler_files,   \* model_dir: {model_type}_{symbol}_scaler.pkl exists, per key
    models,         \* ModelLoader.models
    scalers,        \* ModelLoader.scalers
    running,        \* the request whose coroutine runs on the event loop, or 0
    pc,             \* position of each request coroutine
    frames,         \* local variables of each request coroutine
    redis_up,       \* the Redis server answers (else every call to it raises)
    redis_store,    \* the keys held by the Redis server
    _cache,         \* CacheManager._cache, the in-memory fallback
    handlers,       \* the endpoint handler (or direct caller) of each request
    current_user,   \* the row of the authenticated user in the table users
    utcnow,         \* datetime.utcnow(), in days
    active_connections,     \* ConnectionManager.active_connections
    client_subscriptions,   \* ConnectionManager.client_subscriptions
    symbol_subscribers,     \* ConnectionManager.symbol_subscribers
    sockets,        \* each WebSocket and the websocket_endpoint serving it
    broadcast       \* the coroutine of broadcast_to_symbol

vars == <<weights, scaler_files, models, scalers, running, pc, frames,
          redis_up, redis_store, _cache, handlers, current_user, utcnow,
          active_connections, client_subscriptions, symbol_subscribers,
          sockets, broadcast>>

\* the state of the membership endpoints
membership_vars == <<current_user, utcnow>>

\* the state of the ConnectionManager, its sockets and its broadcast
websocket_vars == <<active_connections, client_subscriptions,
                    symbol_subscribers, sockets, broadcast>>

\* what the prediction services never touch
platform_vars == <<membership_vars, websocket_vars>>

\* a nullable column or Optional value that is set
Some(value) == <<value>>

\* the column defaults of User
NewUser ==
    [id |-> 1,
     membership_type |-> "free",
     membership_start_date |-> None,
     membership_end_date |-> None,
     subscription_id |-> None,
     payment_method |-> None,
     billing_cycle |-> "monthly",
     auto_renew |-> TRUE,
     api_calls_limit |-> 100,
     portfolio_limit |-> 1,
     watchlist_limit |-> 3,
     prediction_limit |-> 10,
     has_advanced_charts |-> FALSE,
     has_real_time_data |-> FALSE,
     has_ai_predictions |-> FALSE,
     has_portfolio_analytics |-> FALSE,
     has_custom_alerts |-> FALSE]

\* the WebSocket connections a run can open
NumSockets == 2

WebSockets == 1..NumSockets

\* a socket no client has opened yet
NewSocket == [at |-> "new", client_id |-> "", open |-> FALSE]

\* no broadcast_to_symbol is under way
IdleBroadcast == [at |-> "idle"]

\* the state of the API boundary: the cache and the endpoint handlers
boundary_vars == <<redis_up, redis_store, _cache, handlers>>

\* the state of ModelLoader, the model directory and the service coroutines
service_vars == <<weights, scaler_files, models, scalers, running, pc, frames>>

\* a handler that is not serving a request
IdleHandler == [at |-> "idle"]

\* the locals of predict_stock_price and of the load_models it calls;
\* pred_price keeps the value predict returned for each model type, fallback
\* the prediction of the explainability fallback, value the return value
IdleFrame ==
    [symbol |-> NoSymbol, current_price |-> 0, idx |-> 0, results |-> EmptyDict,
     pred_price |-> EmptyDict, model_predictions |-> EmptyDict,
     fallback |-> None, value |-> EmptyDict]

Init ==
    /\ weights = [k \in Keys |-> "absent"]
    /\ scaler_files = [k \in Keys |-> FALSE]
    /\ models = EmptyDict
    /\ scalers = EmptyDict
    /\ running = 0
    /\ pc = [r \in Requests |-> "idle"]
    /\ frames = [r \in Requests |-> IdleFrame]
    /\ redis_up = TRUE
    /\ redis_store = EmptyDict
    /\ _cache = EmptyDict
    /\ handlers = [r \in Requests |-> IdleHandler]
    /\ current_user = NewUser
    /\ utcnow = 0
    /\ active_connections = EmptyDict
    /\ client_subscriptions = EmptyDict
    /\ symbol_subscribers = EmptyDict
    /\ sockets = [w \in WebSockets |-> NewSocket]
    /\ broadcast = IdleBroadcast

(***************************************************************************)
(* The training scripts and the operator, acting on the model directory.   *)
(***************************************************************************)
\* save_model: torch.save(model.state_dict(), model_path)
torch_save(key, kind) ==
    /\ weights[key] # kind
    /\ weights' = [weights EXCEPT ![key] = kind]
    /\ UNCHANGED <<scaler_files, models, scalers, running, pc, frames>>
    /\ UNCHANGED boundary_vars
    /\ UNCHANGED platform_vars

\* save_model: pickle.dump(scaler, f)
pickle_dump(key) ==
    /\ ~scaler_files[key]
    /\ scaler_files' = [scaler_files EXCEPT ![key] = TRUE]
    /\ UNCHANGED <<weights, models, scalers, running, pc, frames>>
    /\ UNCHANGED boundary_vars
    /\ UNCHANGED platform_vars

remove_weights(key) ==
    /\ weights[key] # "absent"
    /\ weights' = [weights EXCEPT ![key] = "absent"]
    /\ UNCHANGED <<scaler_files, models, scalers, running, pc, frames>>
    /\ UNCHANGED boundary_vars
    /\ UNCHANGED platform_vars

remove_scaler(key) ==
    /\ scaler_files[key]
    /\ scaler_files' = [scaler_files EXCEPT ![key] = FALSE]
    /\ UNCHANGED <<weights, models, scalers, running, pc, frames>>
    /\ UNCHANGED boundary_vars
    /\ UNCHANGED platform_vars

(***************************************************************************)
(* The event loop.  The request handlers are coroutines of one thread: a   *)
(* coroutine keeps the thread until it reaches an await that suspends it.  *)
(* predict_stock_price awaits get_stock_info; load_models, predict and the *)
(* ensemble arithmetic are plain synchronous calls.  At "done" the         *)
(* coroutine has returned and its caller, which awaited it, runs on.       *)
(***************************************************************************)
\* variant: the deserialization is awaited as well (run off the loop)
Suspends_in_load(position) == position \in {"get_stock_info", "deserialize"}

Suspends(position) == position = "get_stock_info"

CanRun(r) ==
    \/ running = r
    \/ running = 0 /\ (pc[r] = "idle" \/ Suspends(pc[r]))

Holder(r, position) == IF position = "idle" \/ Suspends(position) THEN 0 ELSE r

Goto(r, position) ==
    /\ pc' = [pc EXCEPT ![r] = position]
    /\ running' = Holder(r, position)

(***************************************************************************)
(* ModelLoader._load_model and ModelLoader.load_models.                    *)
(***************************************************************************)
\* the existence check of _load_model: both files of the key are there
files_exist(key) == weights[key] # "absent" /\ scaler_files[key]

\* what _load_model returns once it has opened the files: the unpickled
\* scaler and the network with its weights, or (None, None) when a file has
\* gone or load_state_dict(strict=True) rejects the state dict
load_model(model_type, symbol) ==
    LET key == Key(model_type, symbol)
    IN  IF TORCH_AVAILABLE /\ scaler_files[key] /\ weights[key] = "ok"
        THEN <<[architecture |-> model_type, eval |-> TRUE], FittedScaler>>
        ELSE <<None, None>>

\* variant: a load that fails drops the entry of the key
store_loaded_or_evict(registry, key, loaded) ==
    IF loaded # None THEN DictSet(registry, key, loaded)
    ELSE [x \in DOMAIN registry \ {key} |-> registry[x]]

\* load_models: the registry entry after _load_model returned loaded
store_loaded(registry, key, loaded) ==
    IF loaded # None THEN DictSet(registry, key, loaded) ELSE registry

\* the loop of load_models moves to the next model type, or load_models
\* returns (its results are dropped) and the prediction loop starts
NextLoad(r, results) ==
    IF frames[r].idx < Len(model_types)
    THEN /\ frames' = [frames EXCEPT ![r].results = results,
                                     ![r].idx = frames[r].idx + 1]
         /\ Goto(r, "load_models")
    ELSE /\ frames' = [frames EXCEPT ![r].results = EmptyDict, ![r].idx = 1]
         /\ Goto(r, "predict")

\* _load_model up to the existence check; without the files it returns
\* (None, None) to load_models
load_models_check(r) ==
    LET model_type == model_types[frames[r].idx]
        key == Key(model_type, frames[r].symbol)
    IN  /\ pc[r] = "load_models" /\ CanRun(r)
        /\ IF TORCH_AVAILABLE /\ files_exist(key)
           THEN /\ Goto(r, "deserialize")
                /\ UNCHANGED frames
                /\ UNCHANGED <<models, scalers>>
           ELSE /\ models' = store_loaded(models, key, None)
                /\ scalers' = store_loaded(scalers, key, None)
                /\ NextLoad(r, DictSet(frames[r].results, model_type, FALSE))
        /\ UNCHANGED <<weights, scaler_files>>
        /\ UNCHANGED boundary_vars
        /\ UNCHANGED platform_vars

\* _load_model from pickle.load to its return, and the store of load_models
load_models_deserialize(r) ==
    LET model_type == model_types[frames[r].idx]
        key == Key(model_type, frames[r].symbol)
        loaded == load_model(model_type, frames[r].symbol)
    IN  /\ pc[r] = "deserialize" /\ CanRun(r)
        /\ models' = store_loaded(models, key, loaded[1])
        /\ scalers' = store_loaded(scalers, key, loaded[2])
        /\ NextLoad(r, DictSet(frames[r].results, model_type, loaded[1] # None))
        /\ UNCHANGED <<weights, scaler_files>>
        /\ UNCHANGED boundary_vars
        /\ UNCHANGED platform_vars

(***************************************************************************)
(* The history of a symbol and the windows built from it.  A history is    *)
(* the number of daily rows the market-data provider returns.              *)
(***************************************************************************)
HistoryRows == {0, 168, 169, 171}

\* data["Close"].rolling(50): the longest rolling window of the features
rolling_window == 50

\* rows that the rolling mean leaves without a value, dropped by dropna
warm_up_rows == rolling_window - 1

\* len(data) after data.dropna()
valid_rows(rows) == IF rows > warm_up_rows THEN rows - warm_up_rows ELSE 0

\* train_lstm.prepare_data(symbol, sequence_length): the numbers of training
\* and test sequences; None stands for the ValueError of an empty history
prepare_data(rows, length) ==
    IF rows = 0 THEN None
    ELSE LET n == IF valid_rows(rows) > length THEN valid_rows(rows) - length ELSE 0
             split_idx == (n * 8) \div 10
         IN  [X_train |-> split_idx, X_test |-> n - split_idx]

\* the window _prepare_data_for_prediction returns: the last length rows of
\* the features, or None without data or with fewer valid rows than length
window(rows) == [rows |-> rows]

\* variant: a history that is too short gives a shorter window
prepare_data_for_prediction_partial(rows, length) ==
    IF rows = 0 \/ valid_rows(rows) = 0 THEN None
    ELSE IF valid_rows(rows) < length THEN window(valid_rows(rows))
    ELSE window(length)

\* _prepare_data_for_prediction(symbol, sequence_length)
prepare_data_for_prediction(rows, length) ==
    IF rows = 0 THEN None
    ELSE IF valid_rows(rows) < length THEN None
    ELSE window(length)

(***************************************************************************)
(* ModelLoader.predict and the prediction loop of predict_stock_price.     *)
(***************************************************************************)
\* the locals of predict when it returns, for a history of rows rows: the
\* window, the scaled window, the output of the network and the value
\* returned (an exception inside predict returns None as well)
predict_locals(model_type, symbol, rows) ==
    LET key == Key(model_type, symbol)
        returns_none(sequence_data) ==
            [sequence_data |-> sequence_data, sequence_scaled |-> None,
             prediction_scaled |-> None, value |-> None]
        sequence_data == prepare_data_for_prediction(rows, sequence_length)
    IN  IF ~TORCH_AVAILABLE \/ key \notin DOMAIN models \/ key \notin DOMAIN scalers
        THEN returns_none(None)
        ELSE IF sequence_data = None
        THEN returns_none(None)
        ELSE [sequence_data |-> sequence_data,
              sequence_scaled |-> sequence_data,
              prediction_scaled |-> network_output(model_type),
              value |-> prediction_original(scalers[key], network_output(model_type))]

\* the values predict can return for a key: None when the key is not loaded
\* or the window cannot be built, else the inverse-scaled network output
predict(model_type, symbol) ==
    {predict_locals(model_type, symbol, rows).value : rows \in HistoryRows}

\* variant: every prediction is recorded under "lstm"
record_prediction_as_lstm(model_predictions, model_type, pred_price) ==
    IF pred_price # None
    THEN DictSet(model_predictions, "lstm", pred_price)
    ELSE model_predictions

\* if pred_price is not None: model_predictions[model_type] = pred_price
record_prediction(model_predictions, model_type, pred_price) ==
    IF pred_price # None
    THEN DictSet(model_predictions, model_type, pred_price)
    ELSE model_predictions

predict_stock_price_predict(r) ==
    LET model_type == model_types[frames[r].idx]
    IN  /\ pc[r] = "predict" /\ CanRun(r)
        /\ \E pred_price \in predict(model_type, frames[r].symbol) :
              frames' = [frames EXCEPT
                  ![r].pred_price = DictSet(frames[r].pred_price, model_type, pred_price),
                  ![r].model_predictions =
                      record_prediction(frames[r].model_predictions, model_type, pred_price),
                  ![r].idx = IF frames[r].idx < Len(model_types)
                             THEN frames[r].idx + 1 ELSE 0]
        /\ Goto(r, IF frames[r].idx < Len(model_types) THEN "predict" ELSE "aggregate")
        /\ UNCHANGED <<weights, scaler_files, models, scalers>>
        /\ UNCHANGED boundary_vars
        /\ UNCHANGED platform_vars

(***************************************************************************)
(* The fallback to the explainability service and the ensemble.            *)
(***************************************************************************)
\* what explain_lstm_prediction(symbol)["prediction"] can be; None stands for
\* an exception (FileNotFoundError, architecture mismatch, no data)
explain_lstm_prediction(symbol) ==
    LET key == Key("lstm", symbol)
    IN  IF files_exist(key) /\ weights[key] = "ok"
        THEN {None, prediction_original(FittedScaler, network_output("lstm"))}
        ELSE {None}

\* the result of predict_stock_price once model_predictions is complete: the
\* ValueError of an empty model_predictions is caught and {} is returned
forecast_result(model_predictions, current_price) ==
    IF DOMAIN model_predictions = {}
    THEN EmptyDict
    ELSE horizon_predictions(model_predictions, current_price)

\* the coroutine returns value
Return(r, model_predictions, fallback) ==
    /\ frames' = [frames EXCEPT
            ![r].model_predictions = model_predictions,
            ![r].fallback = fallback,
            ![r].value = forecast_result(model_predictions, frames[r].current_price)]
    /\ Goto(r, "done")

predict_stock_price_aggregate(r) ==
    /\ pc[r] = "aggregate" /\ CanRun(r)
    /\ IF DOMAIN frames[r].model_predictions = {}
       THEN \E prediction \in explain_lstm_prediction(frames[r].symbol) :
              Return(r, record_prediction(EmptyDict, "lstm", prediction), prediction)
       ELSE Return(r, frames[r].model_predictions, None)
    /\ UNCHANGED <<weights, scaler_files, models, scalers>>
    /\ UNCHANGED boundary_vars
    /\ UNCHANGED platform_vars

(***************************************************************************)
(* The entry and the exit of predict_stock_price.                          *)
(***************************************************************************)
predict_stock_price_call(r, symbol) ==
    /\ pc[r] = "idle" /\ CanRun(r)
    /\ frames' = [frames EXCEPT ![r] = [IdleFrame EXCEPT !.symbol = symbol]]
    /\ Goto(r, "get_stock_info")
    /\ UNCHANGED <<weights, scaler_files, models, scalers>>
    /\ UNCHANGED boundary_vars
    /\ UNCHANGED platform_vars

\* get_stock_info returned: no stock info raises the ValueError that the
\* handler catches, returning {}
predict_stock_price_stock_info(r) ==
    /\ pc[r] = "get_stock_info" /\ CanRun(r)
    /\ \E info \in {NoStockInfo} \cup CurrentPrices :
          IF info = NoStockInfo
          THEN Return(r, EmptyDict, None)
          ELSE /\ frames' = [frames EXCEPT ![r].current_price = info, ![r].idx = 1]
               /\ Goto(r, "load_models")
    /\ UNCHANGED <<weights, scaler_files, models, scalers>>
    /\ UNCHANGED boundary_vars
    /\ UNCHANGED platform_vars

\* the caller has taken the returned value
predict_stock_price_return(r) ==
    /\ pc[r] = "done" /\ CanRun(r)
    /\ frames' = [frames EXCEPT ![r] = IdleFrame]
    /\ Goto(r, "idle")
    /\ UNCHANGED <<weights, scaler_files, models, scalers>>
    /\ UNCHANGED boundary_vars
    /\ UNCHANGED platform_vars

(***************************************************************************)
(* Specification.                                                          *)
(***************************************************************************)
Next ==
    \/ \E key \in Keys, kind \in WeightKinds : torch_save(key, kind)
    \/ \E key \in Keys : pickle_dump(key)
    \/ \E key \in Keys : remove_weights(key)
    \/ \E key \in Keys : remove_scaler(key)
    \/ \E r \in Requests, symbol \in Symbols : predict_stock_price_call(r, symbol)
    \/ \E r \in Requests : predict_stock_price_stock_info(r)
    \/ \E r \in Requests : load_models_check(r)
    \/ \E r \in Requests : load_models_deserialize(r)
    \/ \E r \in Requests : predict_stock_price_predict(r)
    \/ \E r \in Requests : predict_stock_price_aggregate(r)
    \/ \E r \in Requests : predict_stock_price_return(r)

Spec == Init /\ [][Next]_vars

(***************************************************************************)
(* The ensemble arithmetic on its own: predict_stock_price from the point  *)
(* where current_price and model_predictions are known, applied to inputs  *)
(* drawn from bounded sets.                                                *)
(***************************************************************************)
EnsembleCurrentPrices == {100, 110}
EnsemblePrices == {RatInt(98), RatInt(100), RatInt(102), RatInt(120)}
EnsembleDicts == UNION {[D -> EnsemblePrices] : D \in SUBSET ModelTypes}

predict_stock_price_ensemble(r) ==
    /\ pc[r] \in {"idle", "done"}
    /\ running \in {0, r}
    /\ \E price \in EnsembleCurrentPrices, d \in EnsembleDicts :
          frames' = [frames EXCEPT ![r] =
              [IdleFrame EXCEPT !.symbol = "AAPL", !.current_price = price,
                                !.pred_price = d, !.model_predictions = d,
                                !.value = forecast_result(d, price)]]
    /\ frames' # frames
    /\ pc' = [pc EXCEPT ![r] = "done"]
    /\ running' = r
    /\ UNCHANGED <<weights, scaler_files, models, scalers>>
    /\ UNCHANGED boundary_vars
    /\ UNCHANGED platform_vars

NextEnsemble == predict_stock_price_ensemble(1)

SpecEnsemble == Init /\ [][NextEnsemble]_vars

(***************************************************************************)
(* Properties.                                                             *)
(***************************************************************************)
\* request r has returned from predict_stock_price
Done(r) == pc[r] = "done"

\* ... with a forecast (a non-empty predictions dict)
Forecast(r) == Done(r) /\ DOMAIN frames[r].value # {}

Contributors(r) == DOMAIN frames[r].model_predictions

SumPrices(d) == LET id(v) == v IN SumOver(d, id, 1)
SumSquares(d) == LET sq(v) == RatMul(v, v) IN SumOver(d, sq, 1)

\* C2: a forecast with exactly one contributing architecture reports the
\* confidence 0.75 for each of the horizons 7d, 15d and 30d, whatever the
\* prediction and the current price are.
C2_SingleModelConfidence ==
    \A r \in Requests :
        Forecast(r) /\ Cardinality(Contributors(r)) = 1
        => /\ DOMAIN frames[r].value = {"7d", "15d", "30d"}
           /\ \A h \in DOMAIN frames[r].value :
                 frames[r].value[h].confidence = RealOfRat(Rat(3, 4))

\* a forecast of one architecture whose prediction differs from the price
C2_Witness ==
    \E r \in Requests :
        /\ Forecast(r)
        /\ Contributors(r) = {"gru"}
        /\ frames[r].model_predictions["gru"] = RatInt(120)
        /\ frames[r].current_price = 110

\* the variance of the predictions of a dict d, as (n * sum(x^2) - sum(x)^2) / n^2
Variance(d) ==
    LET n == Cardinality(DOMAIN d)
    IN  RatDiv(RatSub(RatMul(RatInt(n), SumSquares(d)),
                      RatMul(SumPrices(d), SumPrices(d))),
               RatInt(n * n))

\* the square of 10 * (standard deviation / current_price)
SquaredPenalty(d, price) == RatDiv(RatMul(RatInt(100), Variance(d)), RatInt(price * price))

\* clamp(0.85 - 10 * stddev / current_price, 0.5, 0.95) for a spread >= 0 and
\* a price > 0: 0.85 - sqrt(q) if sqrt(q) < 0.35, that is q < 49/400, else 0.5
ClampedConfidence(d, price) ==
    IF RatLe(Rat(49, 400), SquaredPenalty(d, price))
    THEN RealOfRat(Rat(1, 2))
    ELSE RealCanon(Rat(17, 20), -1, SquaredPenalty(d, price))

\* C3: with two or more contributing architectures the confidence of every
\* horizon is clamp(0.85 - 10 * (stddev of the predictions / current_price),
\* 0.5, 0.95); every confidence of a forecast lies in [0.5, 0.95] and is the
\* same for the three horizons.
C3_ConfidenceFormula ==
    \A r \in Requests :
        Forecast(r)
        => \A h \in DOMAIN frames[r].value :
              /\ Cardinality(Contributors(r)) >= 2
                    => frames[r].value[h].confidence =
                          ClampedConfidence(frames[r].model_predictions,
                                            frames[r].current_price)
              /\ RatLeReal(Rat(1, 2), frames[r].value[h].confidence)
              /\ RealLeRat(frames[r].value[h].confidence, Rat(19, 20))
              /\ frames[r].value[h].confidence = frames[r].value["7d"].confidence

\* a forecast of three architectures whose confidence is irrational and
\* strictly between the clamp bounds
C3_Witness ==
    \E r \in Requests :
        /\ Forecast(r)
        /\ Cardinality(Contributors(r)) = 3
        /\ frames[r].value["30d"].confidence.sgn = -1
        /\ RatLtReal(Rat(1, 2), frames[r].value["30d"].confidence)

\* x < y for two confidences (rational, or with the same rational part)
RealLt(x, y) ==
    CASE y.sgn = 0 -> RealLtRat(x, y.rat)
      [] y.sgn # 0 /\ x.sgn = 0 -> RatLtReal(x.rat, y)
      [] y.sgn # 0 /\ x.sgn # 0 /\ x.rat = y.rat ->
            \/ x.sgn = -1 /\ y.sgn = 1
            \/ x.sgn = -1 /\ y.sgn = -1 /\ RatLt(y.rad, x.rad)
            \/ x.sgn = 1 /\ y.sgn = 1 /\ RatLt(x.rad, y.rad)

\* two forecasts of the same architectures at the same current price
Comparable(f, g) ==
    /\ DOMAIN f.value # {} /\ DOMAIN g.value # {}
    /\ DOMAIN f.model_predictions = DOMAIN g.model_predictions
    /\ Cardinality(DOMAIN f.model_predictions) >= 2
    /\ f.current_price = g.current_price

Identical(d) == \A a, b \in DOMAIN d : d[a] = d[b]

\* C4 as stated: the confidence strictly decreases as the spread between
\* the contributing predictions increases.
C4_StrictlyDecreasing ==
    [][Comparable(frames[1], frames'[1])
       /\ RatLt(Variance(frames[1].model_predictions),
                Variance(frames'[1].model_predictions))
       => RealLt(frames'[1].value["7d"].confidence,
                 frames[1].value["7d"].confidence)]_vars

\* C4: with two or more contributing architectures whose predictions are
\* identical the confidence is 0.85; a larger spread between the predictions
\* never gives a larger confidence, and it gives a strictly smaller one
\* unless the confidence has reached its lower bound 0.5.
C4_NonIncreasing ==
    [][/\ Cardinality(DOMAIN frames'[1].model_predictions) >= 2
          /\ Identical(frames'[1].model_predictions)
          => frames'[1].value["7d"].confidence = RealOfRat(Rat(17, 20))
       /\ Comparable(frames[1], frames'[1])
          /\ RatLt(Variance(frames[1].model_predictions),
                   Variance(frames'[1].model_predictions))
          => /\ ~RealLt(frames[1].value["7d"].confidence,
                        frames'[1].value["7d"].confidence)
             /\ RatLtReal(Rat(1, 2), frames'[1].value["7d"].confidence)
                => RealLt(frames'[1].value["7d"].confidence,
                          frames[1].value["7d"].confidence)]_vars

\* a forecast of two disagreeing architectures whose confidence is below
\* 0.85 and above the lower bound
C4_Witness ==
    \E r \in Requests :
        /\ Forecast(r)
        /\ Cardinality(Contributors(r)) = 2
        /\ ~Identical(frames[r].model_predictions)
        /\ RatLtReal(Rat(1, 2), frames[r].value["7d"].confidence)
        /\ RealLtRat(frames[r].value["7d"].confidence, Rat(17, 20))

\* the deviation of the price of horizon h from the current price
Deviation(r, h) ==
    RatSub(frames[r].value[h].price, RatInt(frames[r].current_price))

\* n * (mean prediction - current_price): it has the sign of base_change
ChangeTimesN(r) ==
    RatSub(SumPrices(frames[r].model_predictions),
           RatInt(Cardinality(Contributors(r)) * frames[r].current_price))

\* C5: in every forecast |price(30d) - current_price| >= |price(15d) -
\* current_price| >= |price(7d) - current_price|, and the three deviations
\* have the sign of base_change.
C5_HorizonMonotonic ==
    \A r \in Requests :
        Forecast(r)
        => /\ RatLe(RatAbs(Deviation(r, "7d")), RatAbs(Deviation(r, "15d")))
           /\ RatLe(RatAbs(Deviation(r, "15d")), RatAbs(Deviation(r, "30d")))
           /\ \A h \in Horizons :
                 RatSign(Deviation(r, h)) = RatSign(ChangeTimesN(r))

\* a forecast below the current price
C5_Witness ==
    \E r \in Requests :
        /\ Forecast(r)
        /\ RatSign(ChangeTimesN(r)) = -1
        /\ RatLt(Deviation(r, "30d"), Deviation(r, "7d"))

\* the multipliers in tenths
MultiplierTenths(h) == CASE h = "7d" -> 10 [] h = "15d" -> 14 [] h = "30d" -> 18

\* C6: for a forecast with current_price > 0, price(h) = current_price *
\* (1 + m_h * base_change) with base_change = (mean prediction -
\* current_price) / current_price and m = 1.0, 1.4, 1.8; multiplied out,
\* 10 * n * price(h) = 10 * n * current_price + 10 * m_h * n * (mean -
\* current_price); and the 7d price is the mean prediction.
C6_HorizonPrices ==
    \A r \in Requests :
        Forecast(r) /\ frames[r].current_price > 0
        => LET n == Cardinality(Contributors(r))
           IN  /\ \A h \in Horizons :
                     RatMul(RatInt(10 * n), frames[r].value[h].price)
                     = RatAdd(RatInt(10 * n * frames[r].current_price),
                              RatMul(RatInt(MultiplierTenths(h)), ChangeTimesN(r)))
               /\ RatMul(RatInt(n), frames[r].value["7d"].price)
                  = SumPrices(frames[r].model_predictions)

\* a forecast of three architectures whose mean is not the current price
C6_Witness ==
    \E r \in Requests :
        /\ Forecast(r)
        /\ Cardinality(Contributors(r)) = 3
        /\ frames[r].current_price > 0
        /\ RatSign(ChangeTimesN(r)) = 1
        /\ frames[r].value["15d"].price[2] # 1

\* the architectures that yielded a prediction in the call of request r:
\* predict returned a price, or the explainability fallback did
Yielded(r) ==
    {mt \in DOMAIN frames[r].pred_price : frames[r].pred_price[mt] # None}
    \cup (IF frames[r].fallback # None THEN {"lstm"} ELSE {})

YieldedPrices(r) ==
    [mt \in Yielded(r) |->
        IF mt \in DOMAIN frames[r].pred_price /\ frames[r].pred_price[mt] # None
        THEN frames[r].pred_price[mt] ELSE frames[r].fallback]

\* C1 as stated: a call in which no architecture yielded a prediction does
\* not return a result: it fails with NoModelsAvailable.
C1_NoModelsAvailable ==
    \A r \in Requests :
        Done(r) /\ frames[r].current_price > 0 => Yielded(r) # {}

\* C7: a call in which some architecture yielded a prediction returns a
\* forecast; the forecast reports exactly the architectures that yielded a
\* prediction, with their predictions and their number, and its 7d price is
\* the mean over exactly those.
C7_ExactContributors ==
    \A r \in Requests :
        Done(r)
        => /\ Yielded(r) # {} => Forecast(r)
           /\ Forecast(r)
              => /\ \A h \in Horizons :
                       /\ frames[r].value[h].model_predictions = YieldedPrices(r)
                       /\ frames[r].value[h].model[1] = Cardinality(Yielded(r))
                 /\ RatMul(RatInt(Cardinality(Yielded(r))), frames[r].value["7d"].price)
                    = SumPrices(YieldedPrices(r))

\* two of the three architectures contributed; the third has no files and
\* is not in the registry
C7_Witness ==
    \E r \in Requests :
        /\ Forecast(r)
        /\ Yielded(r) = {"lstm", "attention_lstm"}
        /\ ~files_exist(Key("gru", frames[r].symbol))
        /\ Key("gru", frames[r].symbol) \notin DOMAIN models

\* request r is reading the files of key
Deserializing(r, key) ==
    /\ pc[r] = "deserialize"
    /\ key = Key(model_types[frames[r].idx], frames[r].symbol)

\* C8 as stated: the files of a key are deserialized once; a later load of
\* the key is served from the in-memory map.
C8_DeserializedOnce ==
    \A r \in Requests, key \in Keys :
        Deserializing(r, key) => key \notin DOMAIN models

\* C9: at most one deserialization of a key is in progress at any time, and
\* a request that reads the registry (predict) is never waiting.
C9_SingleFlight ==
    /\ \A key \in Keys :
          Cardinality({r \in Requests : Deserializing(r, key)}) <= 1
    /\ \A r \in Requests : pc[r] \in {"predict", "aggregate"} => running = r

\* a first load of a key is in progress while another request for the same
\* symbol is in flight
C9_Witness ==
    \E r, q \in Requests, key \in Keys :
        /\ r # q
        /\ Deserializing(r, key)
        /\ key \notin DOMAIN models
        /\ pc[q] = "get_stock_info"
        /\ frames[q].symbol = frames[r].symbol

\* predict finds the model and the scaler of key
Usable(ms, ss, key) ==
    /\ key \in DOMAIN ms /\ ms[key] # None
    /\ key \in DOMAIN ss /\ ss[key] # None

\* C10: a key that is in the registry stays in it, with its model and its
\* scaler, whatever happens next.
C10_NeverEvicted ==
    [][\A key \in Keys :
          Usable(models, scalers, key) => Usable(models', scalers', key)]_vars

\* a load of a key has just failed and the key is still in the registry
C10_Witness ==
    \E r \in Requests, mt \in ModelTypes :
        /\ pc[r] \in {"load_models", "deserialize"}
        /\ mt \in DOMAIN frames[r].results
        /\ ~frames[r].results[mt]
        /\ Usable(models, scalers, Key(mt, frames[r].symbol))
        /\ ~files_exist(Key(mt, frames[r].symbol))

(***************************************************************************)
(* C11: an architecture mismatch of a weights file.                        *)
(***************************************************************************)
\* request r is inside _load_model with a state dict of an older architecture
Mismatched(r) ==
    /\ pc[r] = "deserialize"
    /\ weights[Key(model_types[frames[r].idx], frames[r].symbol)] = "old"
    /\ scaler_files[Key(model_types[frames[r].idx], frames[r].symbol)]

\* C11 as stated: when the parameter keys of the weights file do not match
\* the architecture, the load ends in an explicit mismatch error: it is never
\* reported to load_models as the False of a model that is not available
C11_MismatchIsExplicit ==
    [][\A r \in Requests :
          (Mismatched(r) /\ pc'[r] = "load_models")
              => frames'[r].results[model_types[frames[r].idx]] # FALSE]_vars

(***************************************************************************)
(* ModelExplainabilityService and the endpoint GET /{symbol}/explain.  The *)
(* handler and explain_prediction contain no await that suspends: the      *)
(* handler keeps the event loop from its call to its response.             *)
(***************************************************************************)
\* the query parameter model_type was not given
NotGiven == ""

\* variant: the endpoint lets every architecture of the loader through
explain_model_types_of_loader == ModelTypes

\* if model_type not in ["lstm", "gru"]
explain_model_types == {"lstm", "gru"}

\* the values of the query parameter a client sends
ExplainParams == ModelTypes \cup {NotGiven}

\* def explain_lstm_prediction(symbol, model_type = "lstm")
model_type_of(param) == IF param = NotGiven THEN "lstm" ELSE param

\* variant: an artifact of another architecture stands in for a missing one
explain_key_or_available(model_type, symbol) ==
    IF files_exist(Key(model_type, symbol)) THEN Key(model_type, symbol)
    ELSE IF \E mt \in ModelTypes : files_exist(Key(mt, symbol))
         THEN Key(CHOOSE mt \in ModelTypes : files_exist(Key(mt, symbol)), symbol)
         ELSE Key(model_type, symbol)

\* model_path and scaler_path of _load_model_and_data
explain_key(model_type, symbol) == Key(model_type, symbol)

\* variant: only the weights file is looked for
model_and_scaler_exist_weights_only(key) == weights[key] # "absent"

\* not (not model_path.exists() or not scaler_path.exists())
model_and_scaler_exist(key) == weights[key] # "absent" /\ scaler_files[key]

\* the HTTPException the endpoint raises for an exception of the service
http_exception(exception, model_type) ==
    IF exception.kind = "FileNotFoundError"
    THEN [status_code |-> 404,
          detail |-> <<model_type, "model not trained for this symbol. Please train the model first.">>]
    ELSE [status_code |-> 500,
          detail |-> <<"Failed to generate explanation", exception>>]

FileNotFoundError == [kind |-> "FileNotFoundError"]

\* raise RuntimeError("Model architecture mismatch. The saved {model_type}
\* model for {symbol} was trained with an old architecture. Please retrain")
architecture_mismatch(model_type, symbol) ==
    [kind |-> "RuntimeError", message |-> "Model architecture mismatch",
     model_type |-> model_type, symbol |-> symbol,
     advice |-> "Please retrain the model"]

ValueError(message) == [kind |-> "ValueError", message |-> message]

\* the handler of r has its response; it returns it in handler_return
Respond(r, response) ==
    /\ handlers' = [handlers EXCEPT ![r] =
            [handlers[r] EXCEPT !.at = "responded"] @@ [response |-> response]]
    /\ running' = r

\* the handler of r moves on, keeping the event loop
Step(r, position, locals) ==
    /\ handlers' = [handlers EXCEPT ![r] =
            locals @@ [handlers[r] EXCEPT !.at = position]]
    /\ running' = r

\* the endpoint up to its call of explain_prediction
endpoint_explain_lstm_prediction(r, symbol, param) ==
    /\ handlers[r].at = "idle" /\ pc[r] = "idle" /\ running = 0
    /\ LET model_type == model_type_of(param)
           call == [at |-> "_load_model_and_data", endpoint |-> "explain",
                    symbol |-> symbol, requested |-> param,
                    model_type |-> model_type]
       IN  IF model_type \notin explain_model_types
           THEN /\ handlers' = [handlers EXCEPT ![r] =
                       [call EXCEPT !.at = "responded"] @@
                       [response |-> [status_code |-> 400,
                           detail |-> "model_type must be 'lstm' or 'gru'"]]]
                /\ running' = r
           ELSE /\ handlers' = [handlers EXCEPT ![r] = call]
                /\ running' = r
    /\ UNCHANGED <<weights, scaler_files, models, scalers, pc, frames>>
    /\ UNCHANGED <<redis_up, redis_store, _cache>>
    /\ UNCHANGED platform_vars

(***************************************************************************)
(* The attribution arithmetic of _compute_shap_values and                  *)
(* explain_prediction, on a short window of the four features.             *)
(***************************************************************************)
feature_names == <<"Close", "MA_20", "MA_50", "Volatility">>

\* X_test[-1:]: the most recent scaled sequence, one row per time step
X_sample ==
    << <<Rat(6, 10), Rat(5, 10), Rat(4, 10), Rat(2, 10)>>,
       <<Rat(7, 10), Rat(5, 10), Rat(4, 10), Rat(3, 10)>> >>

\* X_train[:background_size]: the background sequences
background ==
    << << <<Rat(2, 10), Rat(3, 10), Rat(4, 10), Rat(1, 10)>>,
          <<Rat(3, 10), Rat(3, 10), Rat(4, 10), Rat(1, 10)>> >>,
       << <<Rat(4, 10), Rat(5, 10), Rat(4, 10), Rat(3, 10)>>,
          <<Rat(5, 10), Rat(5, 10), Rat(4, 10), Rat(1, 10)>> >> >>

\* model(background).squeeze(-1): the scaled output on each background sequence
background_output(model_type) ==
    CASE model_type = "lstm"           -> <<Rat(1, 5), Rat(2, 5)>>
      [] model_type = "gru"            -> <<Rat(3, 10), Rat(1, 2)>>
      [] model_type = "attention_lstm" -> <<Rat(3, 5), Rat(4, 5)>>

\* what shap.Explainer reports when it works: values and base_values
shap_result ==
    [values |-> << <<Rat(1, 20), Rat(-1, 50), Rat(0, 1), Rat(1, 100)>>,
                   <<Rat(3, 50), Rat(-1, 100), Rat(1, 100), Rat(1, 50)>> >>,
     base_values |-> <<Rat(7, 20)>>]

\* the list <<item(1), ..., item(n)>>
RECURSIVE ListOf(_, _)
ListOf(item(_), n) == IF n = 0 THEN <<>> ELSE Append(ListOf(item, n - 1), item(n))

RECURSIVE RatSum(_)
RatSum(seq) == IF seq = <<>> THEN RatInt(0) ELSE RatAdd(Head(seq), RatSum(Tail(seq)))

\* np.mean of a one-dimensional array
np_mean_of(seq) == RatDiv(RatSum(seq), RatInt(Len(seq)))

\* background.numpy().mean(axis=0)
background_mean(bg) ==
    LET row(t) ==
            LET cell(f) ==
                    LET sample_of(b) == bg[b][t][f]
                    IN  np_mean_of(ListOf(sample_of, Len(bg)))
            IN  ListOf(cell, Len(bg[1][t]))
    IN  ListOf(row, Len(bg[1]))

\* shap_values[0, :] = (sample[0, :] - background.mean(axis=0)) * 0.1
fallback_shap_values(sample, bg) ==
    LET mean == background_mean(bg)
        row(t) ==
            LET cell(f) == RatMul(RatSub(sample[t][f], mean[t][f]), Rat(1, 10))
            IN  ListOf(cell, Len(sample[t]))
    IN  ListOf(row, Len(sample))

\* _compute_shap_values: the estimator, or the approximation of its except
\* branch when shap is missing or raises
compute_shap_values(model_type, estimator_fails) ==
    IF estimator_fails
    THEN [shap_values |-> fallback_shap_values(X_sample, background),
          expected_value |-> np_mean_of(background_output(model_type))]
    ELSE [shap_values |-> shap_result.values,
          expected_value |-> np_mean_of(shap_result.base_values)]

\* variant: the mean of the signed attributions
per_feature_importance_signed(shap_for_sample) ==
    LET column(f) ==
            LET cell(t) == shap_for_sample[t][f]
            IN  np_mean_of(ListOf(cell, Len(shap_for_sample)))
    IN  ListOf(column, Len(shap_for_sample[1]))

\* np.mean(np.abs(shap_for_sample), axis=0)
per_feature_importance(shap_for_sample) ==
    LET column(f) ==
            LET cell(t) == RatAbs(shap_for_sample[t][f])
            IN  np_mean_of(ListOf(cell, Len(shap_for_sample)))
    IN  ListOf(column, Len(shap_for_sample[1]))

\* feature_importances.sort(key=lambda x: abs(x["importance"]), reverse=True):
\* a stable sort, so equal importances keep the order of feature_names
sorted_importances(importance) ==
    LET n == Len(feature_names)
        before(j, i) ==
            \/ RatLt(RatAbs(importance[i]), RatAbs(importance[j]))
            \/ RatAbs(importance[i]) = RatAbs(importance[j]) /\ j < i
        rank(i) == Cardinality({j \in 1..n : before(j, i)}) + 1
        item(k) ==
            LET i == CHOOSE i \in 1..n : rank(i) = k
            IN  [name |-> feature_names[i], importance |-> importance[i]]
    IN  ListOf(item, n)

\* the dict explain_prediction returns
explanation(symbol, model_type, scaler, estimator_fails) ==
    LET shap == compute_shap_values(model_type, estimator_fails)
    IN  [symbol |-> symbol,
         prediction |-> prediction_original(scaler, network_output(model_type)),
         model_output |-> network_output(model_type),
         base_value |-> prediction_original(scaler, shap.expected_value),
         feature_importances |->
             sorted_importances(per_feature_importance(shap.shap_values)),
         model_type |-> model_type]

(***************************************************************************)
(* _load_model_and_data and explain_prediction, step by step.  The model   *)
(* directory can change between the steps; the registry of ModelLoader is  *)
(* not used.                                                               *)
(***************************************************************************)
\* the existence check at the head of _load_model_and_data
explain_load_check(r) ==
    /\ handlers[r].at = "_load_model_and_data" /\ running = r
    /\ IF ~TORCH_AVAILABLE
          \/ ~model_and_scaler_exist(explain_key(handlers[r].model_type,
                                                 handlers[r].symbol))
       THEN Respond(r, http_exception(FileNotFoundError, handlers[r].model_type))
       ELSE Step(r, "prepare_data", <<>>)
    /\ UNCHANGED <<weights, scaler_files, models, scalers, pc, frames>>
    /\ UNCHANGED <<redis_up, redis_store, _cache>>
    /\ UNCHANGED platform_vars

\* _import_training_modules and prepare_data_fn: the history is fetched
explain_prepare_data(r) ==
    /\ handlers[r].at = "prepare_data" /\ running = r
    /\ \E rows \in HistoryRows :
          LET data == prepare_data(rows, sequence_length)
          IN  IF handlers[r].model_type \notin {"lstm", "gru"}
              THEN Respond(r, http_exception(ValueError("Unknown model type"),
                                             handlers[r].model_type))
              ELSE IF data = None
              THEN Respond(r, http_exception(ValueError("No data found"),
                                             handlers[r].model_type))
              ELSE IF data.X_train = 0
              THEN Respond(r, http_exception(ValueError("Not enough training data"),
                                             handlers[r].model_type))
              ELSE Step(r, "torch_load", [data |-> data])
    /\ UNCHANGED <<weights, scaler_files, models, scalers, pc, frames>>
    /\ UNCHANGED <<redis_up, redis_store, _cache>>
    /\ UNCHANGED platform_vars

\* torch.load, load_state_dict(strict=True) and pickle.load of the scaler
explain_torch_load(r) ==
    LET key == explain_key(handlers[r].model_type, handlers[r].symbol)
    IN  /\ handlers[r].at = "torch_load" /\ running = r
        /\ IF weights[key] = "absent" \/ (weights[key] = "ok" /\ ~scaler_files[key])
           THEN Respond(r, http_exception(FileNotFoundError, handlers[r].model_type))
           ELSE IF weights[key] = "old"
           THEN Respond(r, http_exception(
                       architecture_mismatch(handlers[r].model_type, handlers[r].symbol),
                       handlers[r].model_type))
           ELSE Step(r, "explain", [scaler |-> FittedScaler])
        /\ UNCHANGED <<weights, scaler_files, models, scalers, pc, frames>>
        /\ UNCHANGED <<redis_up, redis_store, _cache>>
        /\ UNCHANGED platform_vars

\* the inference, _compute_shap_values and the response of the endpoint;
\* estimator_fails is the except branch of _compute_shap_values
explain_compute(r) ==
    /\ handlers[r].at = "explain" /\ running = r
    /\ IF handlers[r].data.X_test = 0
       THEN /\ Respond(r, http_exception(ValueError("Not enough test data"),
                                         handlers[r].model_type))
       ELSE \E estimator_fails \in BOOLEAN :
              /\ handlers' = [handlers EXCEPT ![r] =
                     [estimator_fails |-> estimator_fails,
                      response |-> [status_code |-> 200,
                          body |-> explanation(handlers[r].symbol,
                                      handlers[r].model_type, handlers[r].scaler,
                                      estimator_fails)]]
                     @@ [handlers[r] EXCEPT !.at = "responded"]]
              /\ running' = r
    /\ UNCHANGED <<weights, scaler_files, models, scalers, pc, frames>>
    /\ UNCHANGED <<redis_up, redis_store, _cache>>
    /\ UNCHANGED platform_vars

\* the handler returns its response and gives the event loop back
handler_return(r) ==
    /\ handlers[r].at = "responded" /\ running = r
    /\ handlers' = [handlers EXCEPT ![r] = IdleHandler]
    /\ running' = 0
    /\ UNCHANGED <<weights, scaler_files, models, scalers, pc, frames>>
    /\ UNCHANGED <<redis_up, redis_store, _cache>>
    /\ UNCHANGED platform_vars

(***************************************************************************)
(* One explain request at a time next to one forecast of the service, with *)
(* the model directory changing under both.                                *)
(***************************************************************************)
\* the request slot of the explain handler and the one of the forecast
HandlerSlot == 1
ForecastSlot == 2

NextExplain ==
    \/ \E key \in Keys, kind \in WeightKinds : torch_save(key, kind)
    \/ \E key \in Keys : pickle_dump(key)
    \/ \E key \in Keys : remove_weights(key)
    \/ \E key \in Keys : remove_scaler(key)
    \/ \E symbol \in Symbols, param \in ExplainParams :
          endpoint_explain_lstm_prediction(HandlerSlot, symbol, param)
    \/ explain_load_check(HandlerSlot)
    \/ explain_prepare_data(HandlerSlot)
    \/ explain_torch_load(HandlerSlot)
    \/ explain_compute(HandlerSlot)
    \/ handler_return(HandlerSlot)
    \/ \E symbol \in Symbols : predict_stock_price_call(ForecastSlot, symbol)
    \/ predict_stock_price_stock_info(ForecastSlot)
    \/ load_models_check(ForecastSlot)
    \/ load_models_deserialize(ForecastSlot)
    \/ predict_stock_price_predict(ForecastSlot)
    \/ predict_stock_price_aggregate(ForecastSlot)
    \/ predict_stock_price_return(ForecastSlot)

SpecExplain == Init /\ [][NextExplain]_vars

(***************************************************************************)
(* Properties of the explain requests.                                     *)
(***************************************************************************)
\* the handler of r serves an explain request
Explaining(r) == handlers[r].at # "idle" /\ handlers[r].endpoint = "explain"

\* the handler of r has a response with this status code
Responded(r, status_code) ==
    /\ handlers[r].at = "responded"
    /\ handlers[r].response.status_code = status_code

\* the weights file of the key is there and its scaler file is not
ScalerAlone(key) == weights[key] # "absent" /\ ~scaler_files[key]

\* the handler of r is about to look for the artifact of its architecture
Looking(r) == Explaining(r) /\ handlers[r].at = "_load_model_and_data"

\* the key of the architecture the explain request of r names
RequestedKey(r) == Key(handlers[r].model_type, handlers[r].symbol)

\* the key load_models of request r is about to look for
LoadingKey(r) == Key(model_types[frames[r].idx], frames[r].symbol)

\* C12: with the weights file of an architecture present and its scaler file
\* missing, explaining the architecture ends in the "not trained" response
\* (FileNotFoundError, 404) as its next step, without fetching the history or
\* opening the weights, and loading it reports the architecture as not
\* available without deserializing anything or changing the registry
C12_ScalerMissing ==
    [][\A r \in Requests :
          /\ (Looking(r) /\ ScalerAlone(RequestedKey(r)) /\ handlers'[r] # handlers[r])
                => /\ handlers'[r].at = "responded"
                   /\ handlers'[r].response.status_code = 404
          /\ (pc[r] = "load_models" /\ ScalerAlone(LoadingKey(r)) /\ pc'[r] # "load_models")
                => /\ pc'[r] = "predict"
                   /\ models' = models /\ scalers' = scalers
          /\ (pc[r] = "load_models" /\ ScalerAlone(LoadingKey(r)) /\ frames'[r] # frames[r])
                => /\ pc'[r] # "deserialize"
                   /\ models' = models /\ scalers' = scalers
                   /\ (pc'[r] = "load_models"
                          => frames'[r].results[model_types[frames[r].idx]] = FALSE)]_vars

\* an explain request was answered "not trained" while the weights file of
\* its architecture is there without its scaler file
C12_Witness ==
    \E r \in Requests :
        /\ Explaining(r) /\ Responded(r, 404)
        /\ ScalerAlone(RequestedKey(r))
        /\ "data" \notin DOMAIN handlers[r]

\* C13: an explain request whose architecture has no artifact ends in the
\* "not trained" response as its next step, whatever artifacts of other
\* architectures exist, and a successful explanation reports the
\* architecture of the request with the output of that network
C13_RequestedArchitecture ==
    [][\A r \in Requests :
          /\ (Looking(r) /\ ~files_exist(RequestedKey(r)) /\ handlers'[r] # handlers[r])
                => /\ handlers'[r].at = "responded"
                   /\ handlers'[r].response.status_code = 404
          /\ (handlers'[r].at = "responded" /\ handlers'[r].endpoint = "explain"
                /\ handlers'[r].response.status_code = 200)
                => /\ handlers'[r].response.body.model_type
                          = model_type_of(handlers'[r].requested)
                   /\ handlers'[r].response.body.model_output
                          = network_output(model_type_of(handlers'[r].requested))]_vars

\* the stacked-recurrent explanation was refused as not trained while the
\* gated-recurrent artifact of the symbol is complete
C13_Witness ==
    \E r \in Requests :
        /\ Explaining(r) /\ Responded(r, 404)
        /\ handlers[r].model_type = "lstm"
        /\ ~files_exist(Key("lstm", handlers[r].symbol))
        /\ files_exist(Key("gru", handlers[r].symbol))
        /\ weights[Key("gru", handlers[r].symbol)] = "ok"

\* C18 as stated: when the estimator fails the request still succeeds, the
\* base value is the mean background prediction, the attributions come from
\* the scaled difference to the background mean, and the response carries a
\* flag that says its precision is degraded
C18_DegradedIsFlagged ==
    \A r \in Requests :
        (Explaining(r) /\ handlers[r].at = "responded"
            /\ "estimator_fails" \in DOMAIN handlers[r]
            /\ handlers[r].estimator_fails)
        => /\ handlers[r].response.status_code = 200
           /\ handlers[r].response.body.base_value
                 = prediction_original(FittedScaler,
                       np_mean_of(background_output(handlers[r].model_type)))
           /\ "degraded" \in DOMAIN handlers[r].response.body

\* C19 as stated: a request that names any of the three architectures, or
\* none, is never rejected as an invalid architecture
C19_ThreeArchitecturesAccepted ==
    \A r \in Requests :
        (Explaining(r) /\ handlers[r].requested \in ModelTypes \cup {NotGiven})
            => ~Responded(r, 400)

\* C19 amended: lstm and gru are accepted, lstm is used when no architecture
\* is given, and attention_lstm is rejected as an invalid architecture
C19_TwoArchitecturesAccepted ==
    \A r \in Requests :
        Explaining(r) =>
            /\ handlers[r].requested \in {"lstm", "gru"}
                  => (~Responded(r, 400)
                         /\ handlers[r].model_type = handlers[r].requested)
            /\ handlers[r].requested = NotGiven
                  => (~Responded(r, 400) /\ handlers[r].model_type = "lstm")
            /\ handlers[r].requested = "attention_lstm"
                  => (Responded(r, 400) /\ "data" \notin DOMAIN handlers[r])

\* an attention_lstm request was rejected although its artifact is complete,
\* and so serves no explanation
C19_Witness ==
    \E r \in Requests :
        /\ Explaining(r) /\ Responded(r, 400)
        /\ handlers[r].requested = "attention_lstm"
        /\ files_exist(Key("attention_lstm", handlers[r].symbol))
        /\ weights[Key("attention_lstm", handlers[r].symbol)] = "ok"

(***************************************************************************)
(* Direct calls of ModelLoader.get_available_models and                    *)
(* ModelLoader.predict, next to one forecast of the service that fills the *)
(* registry.  Both calls are synchronous.                                  *)
(***************************************************************************)
\* variant: an architecture counts as available with its weights file alone
get_available_models_weights_only(symbol) ==
    [model_type \in ModelTypes |-> weights[Key(model_type, symbol)] # "absent"]

\* available[model_type] = model_path.exists() and scaler_path.exists()
get_available_models(symbol) ==
    [model_type \in ModelTypes |->
        weights[Key(model_type, symbol)] # "absent"
            /\ scaler_files[Key(model_type, symbol)]]

get_available_models_call(r, symbol) ==
    /\ handlers[r].at = "idle" /\ pc[r] = "idle" /\ running = 0
    /\ handlers' = [handlers EXCEPT ![r] =
            [at |-> "responded", endpoint |-> "available", symbol |-> symbol,
             response |-> get_available_models(symbol)]]
    /\ running' = r
    /\ UNCHANGED <<weights, scaler_files, models, scalers, pc, frames>>
    /\ UNCHANGED <<redis_up, redis_store, _cache>>
    /\ UNCHANGED platform_vars

\* predict(model_type, symbol) with the history the provider returns
predict_call(r, model_type, symbol) ==
    /\ handlers[r].at = "idle" /\ pc[r] = "idle" /\ running = 0
    /\ \E rows \in HistoryRows :
          handlers' = [handlers EXCEPT ![r] =
              [at |-> "responded", endpoint |-> "predict", symbol |-> symbol,
               model_type |-> model_type, rows |-> rows,
               response |-> predict_locals(model_type, symbol, rows)]]
    /\ running' = r
    /\ UNCHANGED <<weights, scaler_files, models, scalers, pc, frames>>
    /\ UNCHANGED <<redis_up, redis_store, _cache>>
    /\ UNCHANGED platform_vars

NextLoader ==
    \/ \E key \in Keys, kind \in WeightKinds : torch_save(key, kind)
    \/ \E key \in Keys : pickle_dump(key)
    \/ \E key \in Keys : remove_weights(key)
    \/ \E key \in Keys : remove_scaler(key)
    \/ \E symbol \in Symbols : get_available_models_call(HandlerSlot, symbol)
    \/ \E model_type \in ModelTypes, symbol \in Symbols :
          predict_call(HandlerSlot, model_type, symbol)
    \/ handler_return(HandlerSlot)
    \/ \E symbol \in Symbols : predict_stock_price_call(ForecastSlot, symbol)
    \/ predict_stock_price_stock_info(ForecastSlot)
    \/ load_models_check(ForecastSlot)
    \/ load_models_deserialize(ForecastSlot)
    \/ predict_stock_price_predict(ForecastSlot)
    \/ predict_stock_price_aggregate(ForecastSlot)
    \/ predict_stock_price_return(ForecastSlot)

SpecLoader == Init /\ [][NextLoader]_vars

(***************************************************************************)
(* Properties of the direct calls.                                         *)
(***************************************************************************)
\* the handler of r holds the locals of a returned predict
Predicted(r) == handlers[r].at = "responded" /\ handlers[r].endpoint = "predict"

\* C14: when the history is empty or leaves fewer than 120 valid rows after
\* the warm-up rows are dropped, predict has no window, scales nothing, runs
\* no network and returns no prediction
C14_InsufficientHistory ==
    \A r \in Requests :
        (Predicted(r)
            /\ (handlers[r].rows = 0
                   \/ handlers[r].rows - (rolling_window - 1) < 120))
        => /\ handlers[r].response.sequence_data = None
           /\ handlers[r].response.sequence_scaled = None
           /\ handlers[r].response.prediction_scaled = None
           /\ handlers[r].response.value = None

\* predict returned nothing for a loaded architecture whose history is one
\* row short of a full window
C14_Witness ==
    \E r \in Requests :
        /\ Predicted(r)
        /\ handlers[r].rows = 168
        /\ Key(handlers[r].model_type, handlers[r].symbol) \in DOMAIN models
        /\ Key(handlers[r].model_type, handlers[r].symbol) \in DOMAIN scalers
        /\ handlers[r].response.value = None

\* C15: get_available_models answers, for each of the three architectures,
\* whether both files of the architecture exist at the call, and leaves the
\* loaded models and the loaded scalers as they are
C15_AvailableIsExistence ==
    [][\A r \in Requests :
          (handlers[r].at = "idle" /\ handlers'[r].at = "responded"
              /\ handlers'[r].endpoint = "available")
          => /\ DOMAIN handlers'[r].response = ModelTypes
             /\ \A mt \in ModelTypes :
                   handlers'[r].response[mt]
                      <=> files_exist(Key(mt, handlers'[r].symbol))
             /\ models' = models
             /\ scalers' = scalers]_vars

\* an availability answer that differs between the architectures, with a
\* weights file that has no scaler file and a non-empty registry
C15_Witness ==
    \E r \in Requests :
        /\ handlers[r].at = "responded" /\ handlers[r].endpoint = "available"
        /\ handlers[r].response["lstm"]
        /\ ~handlers[r].response["gru"]
        /\ weights[Key("gru", handlers[r].symbol)] # "absent"
        /\ ~scaler_files[Key("gru", handlers[r].symbol)]
        /\ Key("lstm", handlers[r].symbol) \in DOMAIN models
        /\ Key("gru", handlers[r].symbol) \notin DOMAIN models

(***************************************************************************)
(* CacheManager: the Redis server in front of an in-memory fallback.       *)
(* The values are the dicts of response.model_dump(); json.dumps and       *)
(* json.loads give back the same dict of strings and floats.               *)
(***************************************************************************)
\* the horizons a client asks for: one of the three, and one outside them
Timeframes == {"7d", "1y"}

\* cache_key = f"prediction_{request.symbol.lower()}_{request.timeframe}"
cache_key(symbol, timeframe) == <<"prediction", Lower(symbol), timeframe>>

CacheKeys == {cache_key(symbol, timeframe) : symbol \in Symbols, timeframe \in Timeframes}

\* CacheManager._redis_available: redis.from_url gave a client at import
redis_available == TRUE

\* CacheManager.get: the value of the Redis server if it answers with one,
\* else (no value, or the call raised) the value of the in-memory fallback
cache_manager_get(key) ==
    IF redis_available /\ redis_up /\ key \in DOMAIN redis_store
    THEN redis_store[key]
    ELSE IF key \in DOMAIN _cache THEN _cache[key] ELSE None

\* CacheManager.set: setex on the Redis server, or, when that raises, a
\* store in the in-memory fallback (which never expires)
cache_manager_set(key, value) ==
    IF redis_available /\ redis_up
    THEN /\ redis_store' = DictSet(redis_store, key, value)
         /\ UNCHANGED _cache
    ELSE /\ _cache' = DictSet(_cache, key, value)
         /\ UNCHANGED redis_store

\* the Redis server becomes unreachable: every call to it raises
redis_fail ==
    /\ redis_up
    /\ redis_up' = FALSE
    /\ UNCHANGED <<redis_store, _cache, handlers>>
    /\ UNCHANGED service_vars
    /\ UNCHANGED platform_vars

redis_recover ==
    /\ ~redis_up
    /\ redis_up' = TRUE
    /\ UNCHANGED <<redis_store, _cache, handlers>>
    /\ UNCHANGED service_vars
    /\ UNCHANGED platform_vars

\* the 300 seconds of a key set with setex(key, 300, ...) have passed
redis_expire(key) ==
    /\ key \in DOMAIN redis_store
    /\ redis_store' = [k \in DOMAIN redis_store \ {key} |-> redis_store[k]]
    /\ UNCHANGED <<redis_up, _cache, handlers>>
    /\ UNCHANGED service_vars
    /\ UNCHANGED platform_vars

(***************************************************************************)
(* The endpoint POST /stock.                                               *)
(***************************************************************************)
\* calculate_confidence_scores: the confidence of each predicted timeframe
calculate_confidence_scores(predictions) ==
    [timeframe \in DOMAIN predictions |-> predictions[timeframe].confidence]

\* generate_recommendation; the confidences of the horizons of one forecast
\* are one number, which is their average
generate_recommendation(predictions, confidence_scores) ==
    IF DOMAIN predictions = {} \/ DOMAIN confidence_scores = {} THEN "Hold"
    ELSE LET avg_confidence ==
                 confidence_scores[CHOOSE t \in DOMAIN confidence_scores : TRUE]
         IN  IF RatLtReal(Rat(8, 10), avg_confidence) THEN "Strong Buy"
             ELSE IF RatLtReal(Rat(6, 10), avg_confidence) THEN "Buy"
             ELSE IF RealLtRat(avg_confidence, Rat(4, 10)) THEN "Sell"
             ELSE "Hold"

\* request.symbol.upper()
Upper(symbol) == IF symbol = "aapl" THEN "AAPL" ELSE symbol

\* variant: only the horizon the request names is put in the response
prediction_response_of_timeframe(request, prediction_data) ==
    LET predictions ==
            [t \in DOMAIN prediction_data \cap {request.timeframe} |->
                prediction_data[t]]
    IN  [symbol |-> Upper(request.symbol), timeframe |-> request.timeframe,
         predictions |-> predictions,
         confidence_scores |-> calculate_confidence_scores(predictions),
         recommendation |-> generate_recommendation(predictions,
                                calculate_confidence_scores(predictions))]

\* PredictionResponse(symbol=..., timeframe=..., predictions=prediction_data,
\* ...).model_dump(), without the timestamp (time is not modelled)
prediction_response(request, prediction_data) ==
    [symbol |-> Upper(request.symbol), timeframe |-> request.timeframe,
     predictions |-> prediction_data,
     confidence_scores |-> calculate_confidence_scores(prediction_data),
     recommendation |-> generate_recommendation(prediction_data,
                            calculate_confidence_scores(prediction_data))]

\* the handler up to its call of ml_service.predict_stock_price: a cached
\* response is returned as it is
endpoint_predict_stock_price(r, symbol, timeframe) ==
    /\ handlers[r].at = "idle" /\ pc[r] = "idle" /\ running = 0
    /\ LET cached_prediction == cache_manager_get(cache_key(symbol, timeframe))
           call == [at |-> "ml_service", endpoint |-> "predict_stock",
                    request |-> [symbol |-> symbol, timeframe |-> timeframe],
                    cached_prediction |-> cached_prediction]
       IN  IF cached_prediction # None
           THEN /\ handlers' = [handlers EXCEPT ![r] =
                       [call EXCEPT !.at = "responded"] @@
                       [response |-> [status_code |-> 200,
                                      body |-> cached_prediction]]]
                /\ running' = r
           ELSE /\ handlers' = [handlers EXCEPT ![r] = call]
                /\ running' = 0
    /\ UNCHANGED <<weights, scaler_files, models, scalers, pc, frames>>
    /\ UNCHANGED <<redis_up, redis_store, _cache>>
    /\ UNCHANGED platform_vars

\* the handler after ml_service.predict_stock_price returned: the response
\* is built, cached and returned
endpoint_respond(r) ==
    /\ handlers[r].at = "ml_service" /\ pc[r] = "done" /\ running = r
    /\ LET response == prediction_response(handlers[r].request, frames[r].value)
       IN  /\ cache_manager_set(cache_key(handlers[r].request.symbol,
                                          handlers[r].request.timeframe),
                                response)
           /\ handlers' = [handlers EXCEPT ![r] =
                  [handlers[r] EXCEPT !.at = "responded"] @@
                  [response |-> [status_code |-> 200, body |-> response]]]
    /\ frames' = [frames EXCEPT ![r] = IdleFrame]
    /\ pc' = [pc EXCEPT ![r] = "idle"]
    /\ UNCHANGED <<weights, scaler_files, models, scalers, running, redis_up>>
    /\ UNCHANGED platform_vars

(***************************************************************************)
(* The endpoint POST /stock in front of the forecast service and the       *)
(* cache, with the model directory and the Redis server changing under it. *)
(* Only the lstm artifacts of a symbol are trained and removed here, and   *)
(* the market data service answers: get_stock_info gives a price and the   *)
(* history is long enough for the window, so that a forecast is empty only *)
(* when no architecture yields a prediction.                               *)
(***************************************************************************)
EndpointKeys == {Key("lstm", symbol) : symbol \in Symbols}

\* the lstm artifact of the symbol can be loaded and used
artifact_usable(symbol) ==
    files_exist(Key("lstm", symbol)) /\ weights[Key("lstm", symbol)] = "ok"

\* the step of the service coroutine r got its market data: a current
\* price, a window for every loaded key, a prediction of the fallback
market_data_available(r) ==
    /\ pc[r] = "get_stock_info" => frames'[r].current_price # NoStockInfo
    /\ pc[r] = "predict" =>
          LET model_type == model_types[frames[r].idx]
              key == Key(model_type, frames[r].symbol)
          IN  (key \in DOMAIN models /\ key \in DOMAIN scalers)
                  => frames'[r].pred_price[model_type] # None
    /\ pc[r] = "aggregate" =>
          ((DOMAIN frames[r].model_predictions = {}
                /\ artifact_usable(frames[r].symbol))
              => frames'[r].fallback # None)

\* await ml_service.predict_stock_price(request.symbol, request.timeframe)
endpoint_call_ml_service(r) ==
    /\ handlers[r].at = "ml_service"
    /\ predict_stock_price_call(r, handlers[r].request.symbol)

\* the steps of the service coroutine that use market data
ml_service_stock_info(r) ==
    predict_stock_price_stock_info(r) /\ market_data_available(r)

ml_service_predict(r) ==
    predict_stock_price_predict(r) /\ market_data_available(r)

ml_service_aggregate(r) ==
    predict_stock_price_aggregate(r) /\ market_data_available(r)

NextEndpoint ==
    \/ \E key \in EndpointKeys, kind \in WeightKinds : torch_save(key, kind)
    \/ \E key \in EndpointKeys : pickle_dump(key)
    \/ \E key \in EndpointKeys : remove_weights(key)
    \/ \E key \in EndpointKeys : remove_scaler(key)
    \/ redis_fail
    \/ redis_recover
    \/ \E key \in CacheKeys : redis_expire(key)
    \/ \E symbol \in Symbols, timeframe \in Timeframes :
          endpoint_predict_stock_price(HandlerSlot, symbol, timeframe)
    \/ endpoint_call_ml_service(HandlerSlot)
    \/ ml_service_stock_info(HandlerSlot)
    \/ load_models_check(HandlerSlot)
    \/ load_models_deserialize(HandlerSlot)
    \/ ml_service_predict(HandlerSlot)
    \/ ml_service_aggregate(HandlerSlot)
    \/ endpoint_respond(HandlerSlot)
    \/ handler_return(HandlerSlot)

SpecEndpoint == Init /\ [][NextEndpoint]_vars

(***************************************************************************)
(* Properties of the endpoint POST /stock.                                 *)
(***************************************************************************)
\* request r is answered in this step (from the cache: the handler goes
\* from idle to its response in one step) or goes on to the service
Arrives(r) == handlers[r].at = "idle" /\ handlers'[r].at # "idle"

AnsweredFromCache(r) == Arrives(r) /\ handlers'[r].at = "responded"

\* request r has its response of POST /stock
Forecasted(r) ==
    /\ handlers[r].at = "responded"
    /\ handlers[r].endpoint = "predict_stock"

\* C16: a forecast request made while the artifacts of its symbol are
\* available is never answered from the cache with the empty forecast, the
\* result produced while no architecture yielded a prediction.
C16_NeverStale ==
    [][\A r \in Requests :
          (AnsweredFromCache(r) /\ artifact_usable(handlers'[r].request.symbol))
              => DOMAIN handlers'[r].response.body.predictions # {}]_vars

\* C17: a request that arrives while the calls to the Redis server raise is
\* not answered from a cache: the handler goes on to compute the forecast.
C17_FailureRecomputes ==
    [][\A r \in Requests :
          (Arrives(r) /\ ~redis_up) => handlers'[r].at = "ml_service"]_vars

\* C20: every forecast with predictions has exactly the horizons 7d, 15d
\* and 30d, each with a price, a confidence and the predictions of the
\* contributing architectures, whatever timeframe the request named; the
\* response names the timeframe of the request.
C20_ThreeHorizons ==
    \A r \in Requests :
        (Forecasted(r) /\ DOMAIN handlers[r].response.body.predictions # {}) =>
            LET body == handlers[r].response.body
            IN  /\ DOMAIN body.predictions = {"7d", "15d", "30d"}
                /\ \A h \in DOMAIN body.predictions :
                      /\ {"price", "confidence", "model_predictions"}
                            \subseteq DOMAIN body.predictions[h]
                      /\ DOMAIN body.predictions[h].model_predictions # {}
                      /\ DOMAIN body.predictions[h].model_predictions
                            \subseteq ModelTypes
                /\ DOMAIN body.confidence_scores = {"7d", "15d", "30d"}
                /\ body.timeframe = handlers[r].request.timeframe

\* a request that named a horizon outside the three got the three horizons
C20_Witness ==
    \E r \in Requests :
        /\ Forecasted(r)
        /\ handlers[r].request.timeframe = "1y"
        /\ handlers[r].cached_prediction = None
        /\ DOMAIN handlers[r].response.body.predictions = {"7d", "15d", "30d"}

(***************************************************************************)
(* Output recovery on its own: the inverse transform of ModelLoader.predict *)
(* and the one of explain_prediction, applied to scalers and scaled        *)
(* outputs drawn from bounded sets.                                        *)
(***************************************************************************)
\* close-price ranges (data_min, data_max) of a fitted scaler; the third is
\* the scaler of a constant close price
CloseRanges == {<<80, 130>>, <<0, 100>>, <<100, 100>>, <<50, 200>>}

\* ranges of the features after the close price: the three of the notebook
\* pipeline, in two fits, and the eight of train_lstm.prepare_data
OtherRanges ==
    {[data_min |-> <<85, 90, 0>>, data_max |-> <<125, 120, 10>>],
     [data_min |-> <<10, 20, 1>>, data_max |-> <<400, 300, 50>>],
     [data_min |-> <<0, -1, -1, 1, 0, 85, 90, 0>>,
      data_max |-> <<900, 1, 2, 2, 1, 125, 120, 100>>]}

ScalerInputs ==
    {[data_min |-> <<c[1]>> \o o.data_min, data_max |-> <<c[2]>> \o o.data_max] :
        c \in CloseRanges, o \in OtherRanges}

\* outputs of a network in scaled feature space (not confined to [0, 1])
ScaledOutputs == {Rat(-1, 2), Rat(0, 1), Rat(9, 25), Rat(1, 2), Rat(1, 1), Rat(3, 2)}

\* the number of features of the arrays train_lstm.prepare_data (9) and the
\* prepare_data of the notebook pipeline (4) return
NumFeatures == {4, 9}

\* np.zeros((1, num_features)) with [:, 0] = value
dummy_features(num_features, value) ==
    [f \in 1..num_features |-> IF f = 1 THEN value ELSE RatInt(0)]

\* the tail of ModelLoader.predict: None stands for the ValueError of a
\* scaler fitted on another number of features, which predict catches
predict_recover(scaler, prediction_scaled) ==
    IF n_features(scaler) # input_size THEN None
    ELSE prediction_original(scaler, prediction_scaled)

\* prediction_actual of explain_prediction: None stands for the ValueError
\* of a scaler fitted on another number of features than X_train has
prediction_actual(scaler, num_features, model_output) ==
    IF n_features(scaler) # num_features THEN None
    ELSE inverse_transform(scaler, dummy_features(num_features, model_output))[1]

\* ModelLoader.predict from the output of the network on
predict_recover_call(r) ==
    /\ handlers[r].at \in {"idle", "responded"} /\ pc[r] = "idle" /\ running \in {0, r}
    /\ \E scaler \in ScalerInputs, prediction_scaled \in ScaledOutputs :
          handlers' = [handlers EXCEPT ![r] =
              [at |-> "responded", endpoint |-> "predict",
               scaler |-> scaler, scaled |-> prediction_scaled,
               num_features |-> input_size,
               value |-> predict_recover(scaler, prediction_scaled)]]
    /\ handlers' # handlers
    /\ running' = r
    /\ UNCHANGED <<weights, scaler_files, models, scalers, pc, frames>>
    /\ UNCHANGED <<redis_up, redis_store, _cache>>
    /\ UNCHANGED platform_vars

\* explain_prediction from the output of the network to prediction_actual
explain_recover_call(r) ==
    /\ handlers[r].at \in {"idle", "responded"} /\ pc[r] = "idle" /\ running \in {0, r}
    /\ \E scaler \in ScalerInputs, model_output \in ScaledOutputs,
          num_features \in NumFeatures :
          handlers' = [handlers EXCEPT ![r] =
              [at |-> "responded", endpoint |-> "explain",
               scaler |-> scaler, scaled |-> model_output,
               num_features |-> num_features,
               value |-> prediction_actual(scaler, num_features, model_output)]]
    /\ handlers' # handlers
    /\ running' = r
    /\ UNCHANGED <<weights, scaler_files, models, scalers, pc, frames>>
    /\ UNCHANGED <<redis_up, redis_store, _cache>>
    /\ UNCHANGED platform_vars

NextScaler ==
    \/ predict_recover_call(HandlerSlot)
    \/ explain_recover_call(HandlerSlot)

SpecScaler == Init /\ [][NextScaler]_vars

(***************************************************************************)
(* Properties of the output recovery.                                      *)
(***************************************************************************)
\* request r has a recovered price
Recovered(r) == handlers[r].at = "responded" /\ handlers[r].value # None

\* the row of prices with price in the close slot
PriceRow(price, n) == [f \in 1..n |-> IF f = 1 THEN price ELSE RatInt(0)]

\* C21: for a scaler whose close price has max > min, re-scaling the price
\* that the inverse transform gave for a scaled output v gives v again.
C21_RoundTrip ==
    \A r \in Requests :
        (Recovered(r) /\ handlers[r].scaler.data_max[1] > handlers[r].scaler.data_min[1])
            => transform(handlers[r].scaler,
                         PriceRow(handlers[r].value, handlers[r].num_features))[1]
                   = handlers[r].scaled

\* a price different from its scaled output was recovered and scales back
C21_Witness ==
    \E r \in Requests :
        /\ Recovered(r)
        /\ handlers[r].endpoint = "predict"
        /\ handlers[r].scaler.data_max[1] > handlers[r].scaler.data_min[1]
        /\ handlers[r].scaled = Rat(9, 25)
        /\ handlers[r].value = RatInt(98)

Shapes == {"flat", "rise", "fall", "zigzag", "step"}
Levels == {37, 100}

\* the day without a closing price (0: every day has one)
GapDays == {0, 60}

\* the number of days the market-data provider returns
BuilderRows == {0, 49, 168, 169, 170, 200, 218, 219}

Histories ==
    [shape : Shapes, level : Levels, gap : GapDays, rows : BuilderRows]

\* data["Close"] of day t
close_at(h, t) ==
    CASE h.shape = "flat"   -> h.level
      [] h.shape = "rise"   -> h.level + t
      [] h.shape = "fall"   -> h.level + 300 - t
      [] h.shape = "zigzag" -> h.level + 2 * (t % 7)
      [] h.shape = "step"   -> h.level + (IF t > 150 THEN 20 ELSE 0)

isnan(h, t) == t = h.gap

\* the sum of item(a), ..., item(b), by halves
RECURSIVE SumRange(_, _, _)
SumRange(item(_), a, b) ==
    IF a > b THEN 0
    ELSE IF a = b THEN item(a)
    ELSE LET mid == (a + b) \div 2
         IN  SumRange(item, a, mid) + SumRange(item, mid + 1, b)

\* the list <<item(a), ..., item(b)>>, by halves
RECURSIVE ListRange(_, _, _)
ListRange(item(_), a, b) ==
    IF a > b THEN <<>>
    ELSE IF a = b THEN <<item(a)>>
    ELSE LET mid == (a + b) \div 2
         IN  ListRange(item, a, mid) \o ListRange(item, mid + 1, b)

\* rolling(w) has a value on day t: w days up to t, each with a close
has_window(h, t, w) == t >= w /\ \A u \in (t - w + 1)..t : ~isnan(h, u)

\* data["Close"].rolling(w).mean() on day t; None is NaN
rolling_mean(h, t, w) ==
    LET close(u) == close_at(h, u)
    IN  IF has_window(h, t, w) THEN Rat(SumRange(close, t - w + 1, t), w) ELSE None

\* variant: the root mean square of the closes
rolling_std_uncentered(h, t, w) ==
    LET square(u) == close_at(h, u) * close_at(h, u)
    IN  IF has_window(h, t, w)
        THEN RealSqrt(Rat(SumRange(square, t - w + 1, t), w)) ELSE None

\* data["Close"].rolling(w).std() on day t: the sample standard deviation
\* (ddof = 1), sqrt((w * sum(x^2) - sum(x)^2) / (w * (w - 1)))
rolling_std(h, t, w) ==
    LET close(u) == close_at(h, u)
        square(u) == close_at(h, u) * close_at(h, u)
        sum == SumRange(close, t - w + 1, t)
        sumsq == SumRange(square, t - w + 1, t)
    IN  IF has_window(h, t, w)
        THEN RealSqrt(Rat(w * sumsq - sum * sum, w * (w - 1))) ELSE None

\* the windows of MA_20 / Volatility and of MA_50
short_window == 20
long_window == rolling_window

\* the row Close, MA_20, MA_50, Volatility of day t
feature_row(h, t) ==
    <<IF isnan(h, t) THEN None ELSE RatInt(close_at(h, t)),
      rolling_mean(h, t, short_window),
      rolling_mean(h, t, long_window),
      rolling_std(h, t, short_window)>>

\* data.dropna(): the days from a to b whose row has no NaN, oldest first
RECURSIVE dropna(_, _, _)
dropna(h, a, b) ==
    IF a > b THEN <<>>
    ELSE IF a = b
         THEN IF \E f \in 1..input_size : feature_row(h, a)[f] = None
              THEN <<>> ELSE <<a>>
    ELSE LET mid == (a + b) \div 2
         IN  dropna(h, a, mid) \o dropna(h, mid + 1, b)

\* variant: features[:sequence_length], the oldest rows
sequence_of_oldest(h, length) ==
    LET index == dropna(h, 1, h.rows)
        row(i) == feature_row(h, index[i])
    IN  IF h.rows = 0 \/ Len(index) < length THEN None
        ELSE [index |-> SubSeq(index, 1, length), sequence |-> ListRange(row, 1, length)]

\* _prepare_data_for_prediction: features[-sequence_length:] with the days
\* of its rows, or None for an empty or too short history
sequence_for_prediction(h, length) ==
    LET index == dropna(h, 1, h.rows)
        row(i) == feature_row(h, index[Len(index) - length + i])
    IN  IF h.rows = 0 \/ Len(index) < length THEN None
        ELSE [index |-> SubSeq(index, Len(index) - length + 1, Len(index)),
              sequence |-> ListRange(row, 1, length)]

\* a call of _prepare_data_for_prediction(symbol, sequence_length=120)
sequence_for_prediction_call(r) ==
    /\ handlers[r].at = "idle" /\ pc[r] = "idle" /\ running = 0
    /\ \E h \in Histories :
          handlers' = [handlers EXCEPT ![r] =
              [at |-> "responded", endpoint |-> "prepare_data_for_prediction",
               history |-> h,
               response |-> sequence_for_prediction(h, sequence_length)]]
    /\ running' = r
    /\ UNCHANGED <<weights, scaler_files, models, scalers, pc, frames>>
    /\ UNCHANGED <<redis_up, redis_store, _cache>>
    /\ UNCHANGED platform_vars

NextBuilder ==
    \/ sequence_for_prediction_call(HandlerSlot)
    \/ handler_return(HandlerSlot)

SpecBuilder == Init /\ [][NextBuilder]_vars

(***************************************************************************)
(* Properties of the feature window.                                       *)
(***************************************************************************)
\* request r got a window from the builder
Built(r) ==
    /\ handlers[r].at = "responded"
    /\ handlers[r].endpoint = "prepare_data_for_prediction"
    /\ handlers[r].response # None

\* day t of history h has a full 50-period lookback of closing prices
FullLookback(h, t) ==
    t \in 50..h.rows /\ \A u \in (t - 49)..t : u # h.gap

\* the sum of the closing prices of the n days up to day t
CloseSum(h, t, n) ==
    LET close(u) == close_at(h, u)
    IN  SumRange(close, t - n + 1, t)

\* C22: a returned window has 120 rows of 4 features without a missing
\* value; its rows are the rows (close, MA-20, MA-50, volatility) of the
\* last 120 days that have a full 50-period lookback, oldest first.
C22_WindowShape ==
    \A r \in Requests :
        Built(r) =>
            LET h == handlers[r].history
                sequence == handlers[r].response.sequence
                index == handlers[r].response.index
                days == {index[i] : i \in 1..Len(index)}
            IN  /\ Len(sequence) = 120 /\ Len(index) = 120
                /\ \A i \in 1..120 :
                      /\ Len(sequence[i]) = 4
                      /\ \A f \in 1..4 : sequence[i][f] # None
                      /\ sequence[i][1] = RatInt(close_at(h, index[i]))
                      /\ RatMul(sequence[i][2], RatInt(20))
                            = RatInt(CloseSum(h, index[i], 20))
                      /\ RatMul(sequence[i][3], RatInt(50))
                            = RatInt(CloseSum(h, index[i], 50))
                      /\ sequence[i][4] = rolling_std(h, index[i], 20)
                /\ \A i \in 1..119 : index[i] < index[i + 1]
                /\ \A t \in days : FullLookback(h, t)
                /\ \A t \in 1..h.rows :
                      (FullLookback(h, t) /\ t \notin days) => t < index[1]

\* a window that skips the days after a day without a closing price
C22_Witness ==
    \E r \in Requests :
        /\ Built(r)
        /\ handlers[r].history.gap = 60
        /\ handlers[r].history.rows = 219
        /\ handlers[r].history.shape = "zigzag"
        /\ handlers[r].response.index[1] = 50
        /\ handlers[r].response.index[11] = 110
        /\ handlers[r].response.index[120] = 219

\* the builder was given 200 days of one constant closing price
FlatCall(r) ==
    /\ handlers[r].at = "responded"
    /\ handlers[r].endpoint = "prepare_data_for_prediction"
    /\ handlers[r].history.shape = "flat"
    /\ handlers[r].history.rows = 200
    /\ handlers[r].history.gap = 0

\* C23: for 200 days of a constant closing price the builder returns a
\* window; its volatility is exactly 0 in every row and both moving
\* averages equal the closing price.
C23_FlatPrices ==
    \A r \in Requests :
        FlatCall(r) =>
            /\ handlers[r].response # None
            /\ \A i \in 1..Len(handlers[r].response.sequence) :
                  LET row == handlers[r].response.sequence[i]
                  IN  /\ row[4] = RealOfRat(RatInt(0))
                      /\ row[2] = RatInt(handlers[r].history.level)
                      /\ row[3] = RatInt(handlers[r].history.level)
                      /\ row[1] = RatInt(handlers[r].history.level)

C23_Witness ==
    \E r \in Requests :
        /\ FlatCall(r)
        /\ handlers[r].history.level = 37
        /\ handlers[r].response # None
        /\ Len(handlers[r].response.sequence) = 120
        /\ handlers[r].response.index[1] = 81

(***************************************************************************)
(* The aggregation of explain_prediction on its own: from shap_values[0]   *)
(* to the sorted feature_importances, on attribution arrays drawn from a   *)
(* bounded set.                                                            *)
(***************************************************************************)
\* the attributions a cell (one time step) of each of the four columns can
\* have
ColumnAttributions ==
    <<{Rat(-1, 5), Rat(1, 10)}, {Rat(0, 1), Rat(1, 10)},
      {Rat(-1, 10), Rat(1, 10)}, {Rat(-1, 5), Rat(0, 1)}>>

\* the time steps of a modelled attribution array
AttributionSteps == 2

\* the attributions of the columns after the fourth, when X has the nine
\* columns of train_lstm.prepare_data
ExtraColumns == <<Rat(1, 2), Rat(-1, 4), Rat(0, 1), Rat(1, 5), Rat(-3, 10)>>

\* one time step of four columns
ShapRows ==
    {<<a, b, c, d>> : a \in ColumnAttributions[1], b \in ColumnAttributions[2],
                      c \in ColumnAttributions[3], d \in ColumnAttributions[4]}

\* arrays of AttributionSteps rows of four columns
ShapArrays4 == [1..AttributionSteps -> ShapRows]

\* shap_values[0]: four columns, or the same with the extra columns
ShapArrays ==
    ShapArrays4 \cup
    {[t \in 1..AttributionSteps |-> a[t] \o ExtraColumns] : a \in ShapArrays4}

\* explain_prediction from shap_for_sample to the sorted feature_importances
feature_importances_call(r) ==
    /\ handlers[r].at = "idle" /\ pc[r] = "idle" /\ running = 0
    /\ \E shap_for_sample \in ShapArrays :
          handlers' = [handlers EXCEPT ![r] =
              [at |-> "responded", endpoint |-> "feature_importances",
               shap_for_sample |-> shap_for_sample,
               response |->
                   sorted_importances(per_feature_importance(shap_for_sample))]]
    /\ running' = r
    /\ UNCHANGED <<weights, scaler_files, models, scalers, pc, frames>>
    /\ UNCHANGED <<redis_up, redis_store, _cache>>
    /\ UNCHANGED platform_vars

NextAttribution ==
    \/ feature_importances_call(HandlerSlot)
    \/ handler_return(HandlerSlot)

SpecAttribution == Init /\ [][NextAttribution]_vars

(***************************************************************************)
(* Properties of the aggregation.                                          *)
(***************************************************************************)
Aggregated(r) ==
    handlers[r].at = "responded" /\ handlers[r].endpoint = "feature_importances"

\* the sum of |shap[t][f]| over the time steps up to t
RECURSIVE AbsSum(_, _, _)
AbsSum(shap, f, t) ==
    IF t = 0 THEN RatInt(0)
    ELSE RatAdd(RatAbs(shap[t][f]), AbsSum(shap, f, t - 1))

\* the position of a feature name in feature_names
NameIndex(name) == CHOOSE i \in 1..Len(feature_names) : feature_names[i] = name

ComparisonRows == {0, 49, 50, 100, 169, 200}

\* the query parameter days (an int without a constraint, default 100)
ComparisonDays == {-5, 0, 30, 100, 300}

ComparisonClose(t) == 100 + t

\* the least number of rows the endpoint accepts
min_history == 50

comparison_key(symbol, days) == <<"prediction_comparison", Lower(symbol), days>>

\* load_models as one synchronous call: the registry after the loop over
\* the model types from position i on
RECURSIVE load_models_registry(_, _, _, _)
load_models_registry(registry, symbol, slot, i) ==
    IF i > Len(model_types) THEN registry
    ELSE LET key == Key(model_types[i], symbol)
             loaded == IF TORCH_AVAILABLE /\ files_exist(key)
                       THEN load_model(model_types[i], symbol)[slot] ELSE None
         IN  load_models_registry(store_loaded(registry, key, loaded),
                                  symbol, slot, i + 1)

\* df["close"].tail(days) of a frame of total_days rows: the positions of
\* its rows; a negative days leaves out the first -days rows
tail(total_days, days) ==
    LET first == IF days >= 0
                 THEN (IF days > total_days THEN 0 ELSE total_days - days)
                 ELSE (IF -days > total_days THEN total_days ELSE -days)
        position(i) == first + i - 1
    IN  IF days = 0 THEN <<>>
        ELSE ListRange(position, 1, total_days - first)

\* n times None
nones(n) ==
    LET none(i) == None
    IN  ListRange(none, 1, n)

\* the lists of one model type: a prediction and an error for each day from
\* prediction_start_idx on, behind the padding
comparison_lists(total_days, days, scaler, model_type) ==
    LET prediction_start_idx ==
            IF sequence_length > total_days - days
            THEN sequence_length ELSE total_days - days
        price == prediction_original(scaler, network_output(model_type))
        prediction(i) == price
        \* row day_idx = prediction_start_idx + i - 1 of df (counted from 0)
        \* is day warm_up_rows + day_idx + 1 of the history
        error(i) ==
            LET actual == RatInt(ComparisonClose(warm_up_rows + prediction_start_idx + i))
            IN  RatMul(RatDiv(RatAbs(RatSub(price, actual)), actual), RatInt(100))
        count == IF total_days > prediction_start_idx
                 THEN total_days - prediction_start_idx ELSE 0
        padding_count == IF prediction_start_idx > total_days - days
                         THEN prediction_start_idx - (total_days - days) ELSE 0
    IN  [predictions |-> nones(padding_count) \o ListRange(prediction, 1, count),
         errors |-> nones(padding_count) \o ListRange(error, 1, count)]

\* the model types whose lists are in the result: available when the
\* handler started and in the registry (after another load_models)
listed_models(available, registry_models, registry_scalers, symbol) ==
    {mt \in ModelTypes :
        /\ available[mt]
        /\ Key(mt, symbol) \in DOMAIN registry_models
        /\ Key(mt, symbol) \in DOMAIN registry_scalers}

\* the result dict of get_prediction_comparison (without dates and timestamp)
comparison_result(symbol, requested_days, rows, listed, registry_scalers) ==
    LET total_days == valid_rows(rows)
        days == IF total_days < requested_days THEN total_days ELSE requested_days
        price(i) == RatInt(ComparisonClose(warm_up_rows + tail(total_days, days)[i] + 1))
        lists == [mt \in listed |->
                     comparison_lists(total_days, days,
                                      registry_scalers[Key(mt, symbol)], mt)]
    IN  [symbol |-> symbol,
         actual_prices |-> ListRange(price, 1, Len(tail(total_days, days))),
         predictions |-> [mt \in listed |-> lists[mt].predictions],
         errors |-> [mt \in listed |-> lists[mt].errors]]

\* the handler up to its await of get_stock_history: a cached result is
\* returned as it is; else load_models and get_available_models
endpoint_prediction_comparison(r, symbol, days) ==
    /\ handlers[r].at = "idle" /\ pc[r] = "idle" /\ running = 0
    /\ LET cached_data == cache_manager_get(comparison_key(symbol, days))
           call == [at |-> "get_stock_history", endpoint |-> "comparison",
                    symbol |-> symbol, days |-> days,
                    available |-> get_available_models(symbol)]
       IN  IF cached_data # None
           THEN /\ handlers' = [handlers EXCEPT ![r] =
                       [call EXCEPT !.at = "responded"] @@
                       [response |-> [status_code |-> 200, body |-> cached_data]]]
                /\ running' = r
                /\ UNCHANGED <<models, scalers>>
           ELSE /\ handlers' = [handlers EXCEPT ![r] = call]
                /\ running' = 0
                /\ models' = load_models_registry(models, symbol, 1, 1)
                /\ scalers' = load_models_registry(scalers, symbol, 2, 1)
    /\ UNCHANGED <<weights, scaler_files, pc, frames>>
    /\ UNCHANGED <<redis_up, redis_store, _cache>>
    /\ UNCHANGED platform_vars

\* the handler after get_stock_history returned rows rows
prediction_comparison_respond(r) ==
    /\ handlers[r].at = "get_stock_history" /\ running = 0
    /\ \E rows \in ComparisonRows :
          LET symbol == handlers[r].symbol
              missing == \E mt \in ModelTypes :
                            /\ handlers[r].available[mt]
                            /\ Key(mt, symbol) \notin DOMAIN models
              models_after == IF missing
                              THEN load_models_registry(models, symbol, 1, 1)
                              ELSE models
              scalers_after == IF missing
                               THEN load_models_registry(scalers, symbol, 2, 1)
                               ELSE scalers
              result == comparison_result(symbol, handlers[r].days, rows,
                            listed_models(handlers[r].available, models_after,
                                          scalers_after, symbol),
                            scalers_after)
          IN  IF rows < min_history
              THEN /\ Respond(r, [status_code |-> 404,
                          detail |-> "Insufficient historical data for comparison"])
                   /\ UNCHANGED <<models, scalers, redis_store, _cache>>
              ELSE /\ Respond(r, [status_code |-> 200, body |-> result])
                   /\ models' = models_after
                   /\ scalers' = scalers_after
                   /\ cache_manager_set(comparison_key(symbol, handlers[r].days), result)
    /\ UNCHANGED <<weights, scaler_files, pc, frames, redis_up>>
    /\ UNCHANGED platform_vars

\* the hour of a cached comparison has passed
comparison_expire ==
    \E key \in DOMAIN redis_store : redis_expire(key)

\* a request while no comparison of another key is cached: the requests of
\* different keys are more than the hour of an entry apart
prediction_comparison_request(r, symbol, days) ==
    /\ DOMAIN redis_store \subseteq {comparison_key(symbol, days)}
    /\ endpoint_prediction_comparison(r, symbol, days)

NextComparison ==
    \/ \E key \in EndpointKeys, kind \in WeightKinds : torch_save(key, kind)
    \/ \E key \in EndpointKeys : pickle_dump(key)
    \/ \E key \in EndpointKeys : remove_weights(key)
    \/ \E key \in EndpointKeys : remove_scaler(key)
    \/ comparison_expire
    \/ \E symbol \in Symbols, days \in ComparisonDays :
          prediction_comparison_request(HandlerSlot, symbol, days)
    \/ prediction_comparison_respond(HandlerSlot)
    \/ handler_return(HandlerSlot)

SpecComparison == Init /\ [][NextComparison]_vars

\* a comparison answered with a result
Compared(r) ==
    /\ handlers[r].at = "responded"
    /\ "endpoint" \in DOMAIN handlers[r]
    /\ handlers[r].endpoint = "comparison"
    /\ handlers[r].response.status_code = 200

\* entry i of the lists of a model type belongs to actual_prices[i]
Aligned(body, mt) ==
    /\ Len(body.predictions[mt]) = Len(body.actual_prices)
    /\ Len(body.errors[mt]) = Len(body.actual_prices)
    /\ \A i \in 1..Len(body.actual_prices) :
          IF body.predictions[mt][i] = None
          THEN body.errors[mt][i] = None
          ELSE body.errors[mt][i] =
                  RatMul(RatDiv(RatAbs(RatSub(body.predictions[mt][i],
                                               body.actual_prices[i])),
                                body.actual_prices[i]), RatInt(100))

\* C26: in every prediction-comparison result for a positive number of
\* requested days, the predictions and the errors of each listed architecture
\* are as long as actual_prices, and entry i of both belongs to the day of
\* actual_prices[i]
C26_ListsAligned ==
    \A r \in Requests :
        (Compared(r) /\ handlers[r].days >= 1) =>
            \A mt \in DOMAIN handlers[r].response.body.predictions :
                Aligned(handlers[r].response.body, mt)

(***************************************************************************)
(* The membership endpoints: subscribe, upgrade and cancel act on the row  *)
(* of the authenticated user.                                              *)
(***************************************************************************)
\* list(MEMBERSHIP_PLANS.keys()), in the order of the dict
MembershipTypes == <<"free", "premium", "pro", "enterprise">>

BillingCycles == {"monthly", "yearly", "lifetime"}

\* the payment methods of the requests
PaymentMethods == {"credit_card", "paypal"}

\* the features (all with the value True) and the limits of each plan
MEMBERSHIP_PLANS ==
    [free |->
        [features |-> {"basic_charts", "limited_predictions",
                       "community_access", "email_support"},
         limits |-> [api_calls_limit |-> 100, portfolio_limit |-> 1,
                     watchlist_limit |-> 3, prediction_limit |-> 10]],
     premium |->
        [features |-> {"advanced_charts", "real_time_data", "ai_predictions",
                       "portfolio_analytics", "priority_support", "custom_alerts"},
         limits |-> [api_calls_limit |-> 1000, portfolio_limit |-> 5,
                     watchlist_limit |-> 10, prediction_limit |-> 100]],
     pro |->
        [features |-> {"advanced_charts", "real_time_data", "ai_predictions",
                       "portfolio_analytics", "priority_support", "custom_alerts",
                       "api_access", "white_label"},
         limits |-> [api_calls_limit |-> 10000, portfolio_limit |-> 20,
                     watchlist_limit |-> 50, prediction_limit |-> 1000]],
     enterprise |->
        [features |-> {"advanced_charts", "real_time_data", "ai_predictions",
                       "portfolio_analytics", "priority_support", "custom_alerts",
                       "api_access", "white_label", "dedicated_support",
                       "custom_integrations"},
         limits |-> [api_calls_limit |-> 100000, portfolio_limit |-> 100,
                     watchlist_limit |-> 200, prediction_limit |-> 10000]]]

\* list(MEMBERSHIP_PLANS.keys()).index(membership_type)
plan_value(membership_type) ==
    CHOOSE i \in 1..Len(MembershipTypes) : MembershipTypes[i] = membership_type

\* variant: a flag the plan does not name keeps its value
update_user_membership_features_keeping(user, membership_type) ==
    LET plan == MEMBERSHIP_PLANS[membership_type]
        get(name, default) == IF name \in plan.features THEN TRUE ELSE default
    IN  [user EXCEPT
            !.api_calls_limit = plan.limits.api_calls_limit,
            !.portfolio_limit = plan.limits.portfolio_limit,
            !.watchlist_limit = plan.limits.watchlist_limit,
            !.prediction_limit = plan.limits.prediction_limit,
            !.has_advanced_charts = get("advanced_charts", user.has_advanced_charts),
            !.has_real_time_data = get("real_time_data", user.has_real_time_data),
            !.has_ai_predictions = get("ai_predictions", user.has_ai_predictions),
            !.has_portfolio_analytics =
                get("portfolio_analytics", user.has_portfolio_analytics),
            !.has_custom_alerts = get("custom_alerts", user.has_custom_alerts)]

\* the limits and the flags of the plan, written to the user
update_user_membership_features(user, membership_type) ==
    LET plan == MEMBERSHIP_PLANS[membership_type]
        get(name, default) == IF name \in plan.features THEN TRUE ELSE default
    IN  [user EXCEPT
            !.api_calls_limit = plan.limits.api_calls_limit,
            !.portfolio_limit = plan.limits.portfolio_limit,
            !.watchlist_limit = plan.limits.watchlist_limit,
            !.prediction_limit = plan.limits.prediction_limit,
            !.has_advanced_charts = get("advanced_charts", FALSE),
            !.has_real_time_data = get("real_time_data", FALSE),
            !.has_ai_predictions = get("ai_predictions", FALSE),
            !.has_portfolio_analytics = get("portfolio_analytics", FALSE),
            !.has_custom_alerts = get("custom_alerts", FALSE)]

\* timedelta(days=...) of the billing cycle
timedelta_days(billing_cycle) ==
    CASE billing_cycle = "monthly" -> 30
      [] billing_cycle = "yearly"  -> 365
      [] OTHER                     -> 365 * 10

\* the days that pass between two requests
Elapses == 31

\* the last day of a run
MaxUtcnow == 100

HTTP_400_BAD_REQUEST == 400

HTTP_500_INTERNAL_SERVER_ERROR == 500

HTTPException(status_code, detail) == [status_code |-> status_code, detail |-> detail]

\* except Exception as e: raise HTTPException(500, detail); the clause
\* catches every exception raised in the try block, an HTTPException too
except_Exception(e, detail) == HTTPException(HTTP_500_INTERNAL_SERVER_ERROR, detail)

\* MembershipResponse of get_current_membership
get_current_membership(user) == user

SubscriptionResponse(user) ==
    [status_code |-> 200, success |-> TRUE,
     subscription_id |-> user.subscription_id,
     membership_details |-> get_current_membership(user)]

\* the handler of a membership endpoint answers; before is the row it read
membership_respond(r, endpoint, request, response) ==
    /\ handlers' = [handlers EXCEPT ![r] =
            [at |-> "responded", endpoint |-> endpoint, request |-> request,
             before |-> current_user, response |-> response]]
    /\ running' = r
    /\ UNCHANGED <<weights, scaler_files, models, scalers, pc, frames>>
    /\ UNCHANGED <<redis_up, redis_store, _cache, utcnow>>
    /\ UNCHANGED websocket_vars

\* POST /subscribe
subscribe_to_plan(r, subscription_request) ==
    /\ handlers[r].at = "idle" /\ pc[r] = "idle" /\ running = 0
    /\ IF /\ current_user.membership_type # "free"
          /\ current_user.membership_end_date # None
          /\ current_user.membership_end_date[1] > utcnow
       THEN /\ membership_respond(r, "subscribe", subscription_request,
                   except_Exception(
                       HTTPException(HTTP_400_BAD_REQUEST,
                                     "User already has an active subscription"),
                       "Failed to process subscription"))
            /\ UNCHANGED current_user
       ELSE LET user == update_user_membership_features(
                    [current_user EXCEPT
                        !.membership_type = subscription_request.membership_type,
                        !.billing_cycle = subscription_request.billing_cycle,
                        !.payment_method = Some(subscription_request.payment_method),
                        !.membership_start_date = Some(utcnow),
                        !.membership_end_date =
                            Some(utcnow + timedelta_days(subscription_request.billing_cycle)),
                        !.subscription_id = <<"sub", current_user.id, utcnow>>],
                    subscription_request.membership_type)
            IN  /\ current_user' = user
                /\ membership_respond(r, "subscribe", subscription_request,
                                      SubscriptionResponse(user))

\* POST /upgrade
upgrade_membership(r, upgrade_request) ==
    /\ handlers[r].at = "idle" /\ pc[r] = "idle" /\ running = 0
    /\ LET current_plan_value == plan_value(current_user.membership_type)
           target_plan_value == plan_value(upgrade_request.target_membership_type)
       IN  IF target_plan_value <= current_plan_value
           THEN /\ membership_respond(r, "upgrade", upgrade_request,
                       except_Exception(
                           HTTPException(HTTP_400_BAD_REQUEST,
                                         "Target plan must be higher than current plan"),
                           "Failed to process upgrade"))
                /\ UNCHANGED current_user
           ELSE LET user == update_user_membership_features(
                        [current_user EXCEPT
                            !.membership_type = upgrade_request.target_membership_type,
                            !.billing_cycle = upgrade_request.billing_cycle,
                            !.payment_method = Some(upgrade_request.payment_method)],
                        upgrade_request.target_membership_type)
                IN  /\ current_user' = user
                    /\ membership_respond(r, "upgrade", upgrade_request,
                                          SubscriptionResponse(user))

\* POST /cancel
cancel_membership(r) ==
    /\ handlers[r].at = "idle" /\ pc[r] = "idle" /\ running = 0
    /\ current_user' = update_user_membership_features(
            [current_user EXCEPT
                !.membership_type = "free",
                !.membership_end_date = Some(utcnow),
                !.subscription_id = None,
                !.payment_method = None,
                !.auto_renew = FALSE],
            "free")
    /\ membership_respond(r, "cancel", None,
            [status_code |-> 200, message |-> "Membership cancelled successfully"])

\* time passes between two requests
days_pass ==
    /\ running = 0
    /\ utcnow + Elapses <= MaxUtcnow
    /\ utcnow' = utcnow + Elapses
    /\ UNCHANGED <<service_vars, boundary_vars, current_user>>
    /\ UNCHANGED websocket_vars

SubscriptionRequests ==
    [membership_type : {MembershipTypes[i] : i \in 1..Len(MembershipTypes)},
     billing_cycle : BillingCycles, payment_method : PaymentMethods]

MembershipUpgradeRequests ==
    [target_membership_type : {MembershipTypes[i] : i \in 1..Len(MembershipTypes)},
     billing_cycle : BillingCycles, payment_method : PaymentMethods]

NextMembership ==
    \/ \E request \in SubscriptionRequests : subscribe_to_plan(HandlerSlot, request)
    \/ \E request \in MembershipUpgradeRequests : upgrade_membership(HandlerSlot, request)
    \/ cancel_membership(HandlerSlot)
    \/ days_pass
    \/ handler_return(HandlerSlot)

SpecMembership == Init /\ [][NextMembership]_vars

\* the handler of endpoint has answered r
Answered(r, endpoint) ==
    /\ handlers[r].at = "responded"
    /\ "endpoint" \in DOMAIN handlers[r]
    /\ handlers[r].endpoint = endpoint

\* an upgrade to a plan that is not above the plan of the user
NotHigher(r) ==
    /\ Answered(r, "upgrade")
    /\ plan_value(handlers[r].request.target_membership_type)
           <= plan_value(handlers[r].before.membership_type)

\* C27: an upgrade to a plan that is not strictly higher is answered with 400
\* 'Target plan must be higher than current plan' and leaves the user's row
\* (type, billing cycle, payment method, limits, flags) as it was
C27_RejectedWith400 ==
    \A r \in Requests :
        NotHigher(r) =>
            /\ handlers[r].response.status_code = 400
            /\ handlers[r].response.detail = "Target plan must be higher than current plan"
            /\ current_user = handlers[r].before

\* the limits and flags of the user are those of the plan of its type
MatchesPlan(user) ==
    LET plan == MEMBERSHIP_PLANS[user.membership_type]
    IN  /\ user.api_calls_limit = plan.limits.api_calls_limit
        /\ user.portfolio_limit = plan.limits.portfolio_limit
        /\ user.watchlist_limit = plan.limits.watchlist_limit
        /\ user.prediction_limit = plan.limits.prediction_limit
        /\ user.has_advanced_charts = ("advanced_charts" \in plan.features)
        /\ user.has_real_time_data = ("real_time_data" \in plan.features)
        /\ user.has_ai_predictions = ("ai_predictions" \in plan.features)
        /\ user.has_portfolio_analytics = ("portfolio_analytics" \in plan.features)
        /\ user.has_custom_alerts = ("custom_alerts" \in plan.features)

\* C28: after every sequence of subscribe, upgrade and cancel from the free
\* plan the four limits and five flags of the user are those of the plan
\* table for its membership type, and after a cancel the type is free and the
\* subscription id and the payment method are None
C28_PlanTable ==
    /\ MatchesPlan(current_user)
    /\ \A r \in Requests :
          Answered(r, "cancel") =>
              /\ current_user.membership_type = "free"
              /\ current_user.subscription_id = None
              /\ current_user.payment_method = None

\* a user who subscribed, upgraded to enterprise and then cancelled
C28_Witness ==
    \E r \in Requests :
        /\ Answered(r, "cancel")
        /\ handlers[r].before.membership_type = "enterprise"
        /\ handlers[r].before.subscription_id # None
        /\ handlers[r].before.has_custom_alerts

(***************************************************************************)
(* The WebSocket ConnectionManager and the endpoint /ws/{client_id}.  A    *)
(* coroutine runs from one await to the next without interruption: each    *)
(* action is such a stretch.                                               *)
(***************************************************************************)
\* the client_id path parameters of the connections
ClientIds == {"a", "b"}

\* the symbols clients subscribe to
SubscribedSymbols == {"AAPL", "MSFT"}

\* the "symbols" lists of the subscribe messages
SymbolLists == {<<>>, <<"AAPL">>, <<"MSFT">>, <<"AAPL", "MSFT">>}

\* the three dicts of the ConnectionManager
manager ==
    [active_connections |-> active_connections,
     client_subscriptions |-> client_subscriptions,
     symbol_subscribers |-> symbol_subscribers]

\* del d[k]
DictDel(d, k) == [x \in DOMAIN d \ {k} |-> d[x]]

\* connect after websocket.accept(): the socket and a new, empty set
connect(m, websocket, client_id) ==
    [m EXCEPT
        !.active_connections = DictSet(@, client_id, websocket),
        !.client_subscriptions = DictSet(@, client_id, {})]

\* disconnect: the client leaves active_connections, the subscriber set of
\* each symbol of client_subscriptions[client_id] (a set left empty is
\* deleted) and client_subscriptions
disconnect(m, client_id) ==
    LET symbols == IF client_id \in DOMAIN m.client_subscriptions
                   THEN m.client_subscriptions[client_id] ELSE {}
        discarded == [s \in DOMAIN m.symbol_subscribers |->
                         IF s \in symbols THEN m.symbol_subscribers[s] \ {client_id}
                         ELSE m.symbol_subscribers[s]]
        emptied == {s \in DOMAIN discarded : s \in symbols /\ discarded[s] = {}}
    IN  [active_connections |-> DictDel(m.active_connections, client_id),
         client_subscriptions |-> DictDel(m.client_subscriptions, client_id),
         symbol_subscribers |-> [s \in DOMAIN discarded \ emptied |-> discarded[s]]]

\* subscribe_client up to its await of send_personal_message, for a client
\* that is in active_connections
subscribe(m, client_id, symbols) ==
    LET added == {symbols[i] : i \in 1..Len(symbols)}
    IN  [m EXCEPT
            !.client_subscriptions[client_id] = @ \cup added,
            !.symbol_subscribers =
                [s \in DOMAIN @ \cup added |->
                    IF s \in added
                    THEN (IF s \in DOMAIN @ THEN @[s] ELSE {}) \cup {client_id}
                    ELSE @[s]]]

\* the clients a broadcast can still reach: in the set of its symbol and
\* connected through the open socket they had when it began
staying(b, m, sk) ==
    {c \in b.stayed :
        /\ b.symbol \in DOMAIN m.symbol_subscribers
        /\ c \in m.symbol_subscribers[b.symbol]
        /\ c \in DOMAIN m.client_subscriptions
        /\ b.symbol \in m.client_subscriptions[c]
        /\ c \in DOMAIN m.active_connections
        /\ m.active_connections[c] = b.began[c]
        /\ sk[b.began[c]].open}

\* what a suspended broadcast holds after another coroutine ran: its
\* iterator refers to the set object that was symbol_subscribers[symbol]
\* when the loop began, also after that set was deleted from the dict
during(b, m, sk) ==
    IF b.at # "send" THEN b
    ELSE LET seen == IF ~b.attached THEN b
                     ELSE IF b.symbol \in DOMAIN m.symbol_subscribers
                     THEN [b EXCEPT !.iterated = m.symbol_subscribers[b.symbol]]
                     ELSE [b EXCEPT !.iterated = {}, !.attached = FALSE]
         IN  [seen EXCEPT !.stayed = staying(b, m, sk)]

\* the manager, the sockets and the broadcast after a stretch of a coroutine
websocket_step(m, sk, b) ==
    /\ active_connections' = m.active_connections
    /\ client_subscriptions' = m.client_subscriptions
    /\ symbol_subscribers' = m.symbol_subscribers
    /\ sockets' = sk
    /\ broadcast' = b
    /\ UNCHANGED <<service_vars, boundary_vars, membership_vars>>

\* websocket_endpoint up to its first receive_text: manager.connect
websocket_endpoint_connect(w, client_id) ==
    /\ sockets[w].at = "new"
    /\ LET m == connect(manager, w, client_id)
           sk == [sockets EXCEPT ![w] =
                     [at |-> "receive", client_id |-> client_id, open |-> TRUE]]
       IN  websocket_step(m, sk, during(broadcast, m, sk))

\* the peer of an open socket goes away
client_closes(w) ==
    /\ sockets[w].at \in {"receive", "confirm"} /\ sockets[w].open
    /\ LET sk == [sockets EXCEPT ![w].open = FALSE]
       IN  websocket_step(manager, sk, during(broadcast, manager, sk))

\* receive_text returns a subscribe message: subscribe_client up to the
\* await of the confirmation
websocket_endpoint_subscribe(w, symbols) ==
    /\ sockets[w].at = "receive" /\ sockets[w].open
    /\ LET client_id == sockets[w].client_id
       IN  IF client_id \notin DOMAIN active_connections
           THEN websocket_step(manager, sockets, broadcast)
           ELSE LET m == subscribe(manager, client_id, symbols)
                    sk == [sockets EXCEPT ![w].at = "confirm"]
                IN  websocket_step(m, sk, during(broadcast, m, sk))

\* send_personal_message after its send_text: an exception of the send
\* disconnects the client
websocket_endpoint_confirmed(w) ==
    /\ sockets[w].at = "confirm"
    /\ LET client_id == sockets[w].client_id
           m == IF sockets[w].open THEN manager ELSE disconnect(manager, client_id)
           sk == [sockets EXCEPT ![w].at = "receive"]
       IN  websocket_step(m, sk, during(broadcast, m, sk))

\* receive_text raises WebSocketDisconnect: manager.disconnect(client_id)
websocket_endpoint_disconnect(w) ==
    /\ sockets[w].at = "receive" /\ ~sockets[w].open
    /\ LET m == disconnect(manager, sockets[w].client_id)
           sk == [sockets EXCEPT ![w].at = "closed"]
       IN  websocket_step(m, sk, during(broadcast, m, sk))

\* the for loop of broadcast_to_symbol from a next() of the set iterator to
\* the await of a send_text, to the end of the set or to the RuntimeError
\* of an iterator whose set changed size: the states it can stop in
RECURSIVE iterate(_, _)
iterate(b, connections) ==
    IF Cardinality(b.iterated) # b.used
    THEN {[b EXCEPT !.at = "raised",
                    !.error = "RuntimeError: Set changed size during iteration"]}
    ELSE IF b.iterated \ b.visited = {}
    THEN {[b EXCEPT !.at = "cleanup"]}
    ELSE UNION {
            IF client_id \in DOMAIN connections
            THEN {[b EXCEPT !.at = "send", !.visited = @ \cup {client_id},
                            !.client_id = client_id,
                            !.websocket = connections[client_id]]}
            ELSE \* KeyError, caught in the loop
                 iterate([b EXCEPT !.visited = @ \cup {client_id},
                                   !.disconnected_clients = Append(@, client_id)],
                         connections)
            : client_id \in b.iterated \ b.visited}

\* for client_id in disconnected_clients: self.disconnect(client_id)
RECURSIVE disconnect_all(_, _, _)
disconnect_all(m, disconnected_clients, i) ==
    IF i > Len(disconnected_clients) THEN m
    ELSE disconnect_all(disconnect(m, disconnected_clients[i]),
                        disconnected_clients, i + 1)

\* the broadcast goes on to its next await or to its end
broadcast_continue(b) ==
    \E next \in iterate(b, active_connections) :
        IF next.at = "cleanup"
        THEN websocket_step(disconnect_all(manager, next.disconnected_clients, 1),
                            sockets, [next EXCEPT !.at = "done"])
        ELSE websocket_step(manager, sockets, next)

\* broadcast_to_symbol up to its first await
broadcast_to_symbol(symbol) ==
    /\ broadcast.at = "idle"
    /\ IF symbol \notin DOMAIN symbol_subscribers
       THEN websocket_step(manager, sockets,
                [at |-> "done", symbol |-> symbol, delivered |-> {}, stayed |-> {},
                 began |-> EmptyDict, disconnected_clients |-> <<>>])
       ELSE LET began == [c \in {x \in symbol_subscribers[symbol] :
                                     x \in DOMAIN active_connections}
                             |-> active_connections[c]]
                b == [at |-> "loop", symbol |-> symbol,
                      iterated |-> symbol_subscribers[symbol], attached |-> TRUE,
                      used |-> Cardinality(symbol_subscribers[symbol]),
                      visited |-> {}, disconnected_clients |-> <<>>,
                      client_id |-> "", websocket |-> 0, error |-> "",
                      delivered |-> {}, began |-> began, stayed |-> DOMAIN began]
            IN  broadcast_continue([b EXCEPT !.stayed = staying(b, manager, sockets)])

\* a send_text of the broadcast returns or raises
broadcast_sent ==
    /\ broadcast.at = "send"
    /\ IF sockets[broadcast.websocket].open
       THEN broadcast_continue([broadcast EXCEPT
                !.delivered = @ \cup {broadcast.client_id}])
       ELSE broadcast_continue([broadcast EXCEPT
                !.disconnected_clients = Append(@, broadcast.client_id)])

\* the caller of broadcast_to_symbol has its return or its exception
broadcast_return ==
    /\ broadcast.at \in {"done", "raised"}
    /\ websocket_step(manager, sockets, IdleBroadcast)

NextWebsocket ==
    \/ \E w \in WebSockets, client_id \in ClientIds :
          websocket_endpoint_connect(w, client_id)
    \/ \E w \in WebSockets : client_closes(w)
    \/ \E w \in WebSockets, symbols \in SymbolLists :
          websocket_endpoint_subscribe(w, symbols)
    \/ \E w \in WebSockets : websocket_endpoint_confirmed(w)
    \/ \E w \in WebSockets : websocket_endpoint_disconnect(w)
    \/ \E symbol \in SubscribedSymbols : broadcast_to_symbol(symbol)
    \/ broadcast_sent
    \/ broadcast_return

SpecWebsocket == Init /\ [][NextWebsocket]_vars

\* C29: after every sequence of connect, subscribe_client and disconnect the
\* indexes agree: c is in symbol_subscribers[s] exactly when s is in
\* client_subscriptions[c], every client of either index is in
\* active_connections, and no set of symbol_subscribers is empty
C29_IndexesAgree ==
    /\ \A c \in ClientIds, s \in SubscribedSymbols :
          (s \in DOMAIN symbol_subscribers /\ c \in symbol_subscribers[s])
              <=> (c \in DOMAIN client_subscriptions /\ s \in client_subscriptions[c])
    /\ \A c \in DOMAIN client_subscriptions : c \in DOMAIN active_connections
    /\ \A s \in DOMAIN symbol_subscribers :
          /\ symbol_subscribers[s] # {}
          /\ symbol_subscribers[s] \subseteq DOMAIN active_connections

\* C30: a broadcast_to_symbol that other clients' disconnect and
\* subscribe_client interleave with ends without an exception and has
\* delivered to every client that stayed connected and subscribed throughout
C30_BroadcastCompletes ==
    /\ broadcast.at # "raised"
    /\ broadcast.at = "done" => broadcast.stayed \subseteq broadcast.delivered

====
